---- MODULE Spec2Model ----
(***************************************************************************)
(* ScholarSphere summary service: text fingerprinting and deduplication,   *)
(* source fetchers and enrichment, and the Neo4j cache freshness gate.     *)
(*                                                                         *)
(* A text is a sequence of one-character strings, so that len(), strip(),  *)
(* lower(), the regular expression \s+, the substring test and split()     *)
(* are computed on characters as Python computes them.                     *)
(***************************************************************************)
EXTENDS Integers, Sequences, FiniteSets, TLC

VARIABLES
    impl,            \* which copy of the code runs: "core" (Summary-service/app/core.py) or "kc" (kc_core.py)
    content_list,    \* deduplicate_content: the argument
    unique_content,  \* deduplicate_content: the returned list
    second_pass,     \* deduplicate_content applied to its own result
    dpc,             \* "idle" | "input" | "deduped" | "rededuped"
    text1, text2,    \* is_duplicate: the two texts
    threshold,       \* is_duplicate: the threshold, as <<numerator, denominator>>
    dup_result,      \* is_duplicate: the returned boolean
    ipc,             \* "idle" | "input" | "done"
    fetcher,         \* a fetcher call: which of the four fetchers
    has_id,          \* a fetcher call: the paper has the identifier the fetcher needs
    upstream,        \* a fetcher call: the outcome of its first request
    upstream2,       \* a fetcher call: the outcome of its second request
    fetch_ret,       \* a fetcher call: what the call gave its caller
    fpc,             \* "idle" | "input" | "done"
    papers,          \* a request: the papers to enrich, paper -> [abstract, doi, arxiv_id]
    results,         \* a request: paper -> fetcher -> what the fetcher task gave, or Pending
    enriched,        \* a request: paper -> the outcome of its enrichment, or Pending
    batch_start,     \* enrich_papers_with_content: index of the first paper of the batch
    req,             \* "idle" | "running" | "ok" | "error"
    repo,            \* which neo4j_repository runs: "summary_service" or "scholar_sphere"
    authors,         \* the graph: author id -> Author node, or NULL
    works,           \* the graph: paper id -> Work node, or NULL
    now,             \* the clock, in milliseconds
    ckey,            \* the id the last cache read asked for
    cache_ret,       \* what the last cache read returned
    cpc,             \* "idle" | "got_author" | "got_paper" | "saved_author" | "saved_by_name" | "saved_paper"
    rq,              \* the by-id endpoints: request -> its state
    write_log,       \* the by-id endpoints: the background writes that completed, in order
    sum_in,          \* a paper summary: the paper and what its fetchers gave
    sum_paper,       \* a paper summary: the enriched paper, or Pending
    llm_key,         \* the LLM wrapper: GROQ_API_KEY is set
    llm_attempts,    \* the LLM wrapper: the outcomes of the attempts made, in order
    llm_waits,       \* the LLM wrapper: the seconds slept between the attempts
    llm_calls,       \* how many times generate_with_groq was entered
    summary_out,     \* what generate_paper_summary returned
    spc,             \* "idle" | "input" | "enriched" | "calling" | "done" | "error"
    au_in,           \* an author summary: the author's name and the papers
    au_sample,       \* an author summary: the papers selected for the prompt
    au_out,          \* what generate_author_summary returned
    apc,             \* "idle" | "input" | "calling" | "done"
    trim_in,         \* trim_to_last_sentence: the text it is called with
    trim_out,        \* trim_to_last_sentence: what it returned
    tpc,             \* "idle" | "input" | "done"
    inv_index,       \* an OpenAlex record: its abstract_inverted_index
    decoded,         \* the decoding of the inverted index: the abstract, or the exception
    xpc,             \* "idle" | "input" | "done"
    num_papers,      \* the papers of one author: how many there are to enrich
    issued,          \* the papers whose fetcher tasks have been created
    outstanding,     \* paper -> how many of its fetcher tasks have not finished
    batch_i,         \* enrich_papers_with_content: the loop index i
    bpc              \* "idle" | "start" | "gathering" | "done"

textVars == <<impl, content_list, unique_content, second_pass, dpc,
              text1, text2, threshold, dup_result, ipc>>

fetchVars == <<fetcher, has_id, upstream, upstream2, fetch_ret, fpc>>

enrichVars == <<papers, results, enriched, batch_start, req>>

cacheVars == <<repo, authors, works, now, ckey, cache_ret, cpc>>

byidVars == <<rq, write_log>>

sumVars == <<sum_in, sum_paper, llm_key, llm_attempts, llm_waits, llm_calls, summary_out, spc>>

authorVars == <<au_in, au_sample, au_out, apc>>

pureVars == <<trim_in, trim_out, tpc, inv_index, decoded, xpc>>

batchVars == <<num_papers, issued, outstanding, batch_i, bpc>>

serviceVars == <<byidVars, sumVars, authorVars, pureVars, batchVars>>

NULL == "None"

----------------------------------------------------------------------------
(* Characters *)

Whitespace == {" ", "\t", "\n"}

LowerMap ==
    [A |-> "a", B |-> "b", C |-> "c", D |-> "d", E |-> "e", F |-> "f", G |-> "g",
     H |-> "h", I |-> "i", J |-> "j", K |-> "k", L |-> "l", M |-> "m", N |-> "n",
     O |-> "o", P |-> "p", Q |-> "q", R |-> "r", S |-> "s", T |-> "t", U |-> "u",
     V |-> "v", W |-> "w", X |-> "x", Y |-> "y", Z |-> "z"]

UpperCase == DOMAIN LowerMap

Lower(c) == IF c \in UpperCase THEN LowerMap[c] ELSE c

IsSpace(c) == c \in Whitespace

\* TLC compares a sequence with the null string only when the sequence is a
\* tuple; SubSeq turns a function on 1..n into the tuple it equals
Text(f) == SubSeq(f, 1, Len(f))

(* str.strip() leaves nothing: the text is empty or whitespace-only *)
IsBlank(text) == \A i \in 1..Len(text) : IsSpace(text[i])

----------------------------------------------------------------------------
(* re.sub(r"\s+", " ", text) with strip(): every whitespace run becomes one
   space and the runs at both ends are dropped *)
CollapseWhitespace(text) ==
    IF text = <<>> THEN <<>>
    ELSE LET n == Len(text)
             \* the index of the last character strip() keeps (0: none)
             last == IF IsBlank(text) THEN 0
                     ELSE CHOOSE i \in 1..n :
                              /\ ~IsSpace(text[i])
                              /\ \A j \in (i + 1)..n : IsSpace(text[j])
             \* a whitespace character survives as " " iff it opens a run
             \* that has text on both sides
             Keep(i) == \/ ~IsSpace(text[i])
                        \/ /\ i > 1
                           /\ i < last
                           /\ ~IsSpace(text[i - 1])
             kept == SelectSeq([i \in 1..n |-> i], Keep)
         IN  Text([k \in 1..Len(kept) |->
                      IF IsSpace(text[kept[k]]) THEN " " ELSE text[kept[k]]])

LowerText(text) == Text([i \in 1..Len(text) |-> Lower(text[i])])

(* normalize_text: strip, collapse every whitespace run to one space, lower *)
normalize_text(text) ==
    IF text = <<>> THEN <<>> ELSE LowerText(CollapseWhitespace(text))

(* Python's `a in b` on strings *)
Contains(inner, outer) ==
    \E off \in 0..(Len(outer) - Len(inner)) :
        \A j \in 1..Len(inner) : outer[off + j] = inner[j]

(* re.sub(r"<[^>]+>", " ", text): a "<", one or more characters other than
   ">", and the ">" that follows them, become one space *)
RECURSIVE StripTagsFrom(_, _)
StripTagsFrom(text, i) ==
    IF i > Len(text) THEN <<>>
    ELSE LET opens == {j \in i..Len(text) : text[j] = "<"}
             open == CHOOSE j \in opens : \A k \in opens : j <= k
             closers == {j \in (open + 1)..Len(text) : text[j] = ">"}
             close == IF closers = {} THEN 0
                      ELSE CHOOSE j \in closers : \A k \in closers : j <= k
         IN  IF opens = {} THEN SubSeq(text, i, Len(text))        \* no tag is left
             ELSE IF close >= open + 2
                 THEN SubSeq(text, i, open - 1) \o <<" ">> \o StripTagsFrom(text, close + 1)
             ELSE SubSeq(text, i, open) \o StripTagsFrom(text, open + 1)

StripTags(text) == StripTagsFrom(text, 1)

(* the lines of a text: the pieces between "\n" *)
RECURSIVE Lines(_)
Lines(text) ==
    LET breaks == {i \in 1..Len(text) : text[i] = "\n"}
        first == CHOOSE i \in breaks : \A k \in breaks : i <= k
    IN  IF breaks = {} THEN <<text>>
        ELSE <<SubSeq(text, 1, first - 1)>> \o Lines(SubSeq(text, first + 1, Len(text)))

RECURSIVE JoinWith(_, _)
JoinWith(parts, sep) ==
    IF parts = <<>> THEN <<>>
    ELSE IF Len(parts) = 1 THEN parts[1]
    ELSE parts[1] \o sep \o JoinWith(Tail(parts), sep)

(* re.sub(r"(?im)^.*word.*$", " ", text): every line that holds the word,
   in any case, becomes one space *)
DropLinesWith(text, word) ==
    LET ls == Lines(text)
    IN  JoinWith([k \in 1..Len(ls) |->
                     IF Contains(word, LowerText(ls[k])) THEN <<" ">> ELSE ls[k]],
                 <<"\n">>)

Copyright == <<"c","o","p","y","r","i","g","h","t">>
AllRightsReserved == <<"a","l","l"," ","r","i","g","h","t","s"," ",
                       "r","e","s","e","r","v","e","d">>

(* sanitize_text *)
sanitize_text(text) ==
    IF text = NULL \/ text = <<>> THEN <<>>
    ELSE CollapseWhitespace(
             DropLinesWith(DropLinesWith(StripTags(text), Copyright), AllRightsReserved))

(* hashlib.md5(...).hexdigest(): modelled as a collision-free digest *)
md5(data) == <<"md5", data>>

get_text_hash(text) == md5(normalize_text(text))

(* set(norm.split()): the set of whitespace-separated words *)
WordSet(norm) ==
    LET n == Len(norm)
        starts == {i \in 1..n : /\ ~IsSpace(norm[i])
                                /\ (i = 1 \/ IsSpace(norm[i - 1]))}
        EndOf(i) == CHOOSE j \in i..n :
                        /\ \A k \in i..j : ~IsSpace(norm[k])
                        /\ (j = n \/ IsSpace(norm[j + 1]))
    IN  {SubSeq(norm, i, EndOf(i)) : i \in starts}

(* len(common_words) / len(total_words) > threshold, threshold = thr[1]/thr[2] *)
JaccardExceeds(norm1, norm2, thr) ==
    LET common_words == WordSet(norm1) \cap WordSet(norm2)
        total_words == WordSet(norm1) \cup WordSet(norm2)
    IN  /\ total_words # {}
        /\ Cardinality(common_words) * thr[2] > thr[1] * Cardinality(total_words)

ShortLen == 200
LongLen == 100
DefaultThreshold == <<9, 10>>

(* Variants of is_duplicate that a slip in the code would produce *)

\* the short-text gate taken when either text is short
is_duplicate_either_short(t1, t2, thr) ==
    IF t1 = <<>> \/ t2 = <<>> THEN FALSE
    ELSE IF get_text_hash(t1) = get_text_hash(t2) THEN TRUE
    ELSE LET norm1 == normalize_text(t1)
             norm2 == normalize_text(t2)
         IN  IF Len(norm1) < ShortLen \/ Len(norm2) < ShortLen
                 THEN norm1 = norm2
             ELSE IF Contains(norm1, norm2) \/ Contains(norm2, norm1) THEN TRUE
             ELSE IF Len(norm1) > LongLen /\ Len(norm2) > LongLen
                 THEN JaccardExceeds(norm1, norm2, thr)
             ELSE FALSE

\* the short-text gate not returning: containment also decides short texts
is_duplicate_no_gate(t1, t2, thr) ==
    IF t1 = <<>> \/ t2 = <<>> THEN FALSE
    ELSE IF get_text_hash(t1) = get_text_hash(t2) THEN TRUE
    ELSE LET norm1 == normalize_text(t1)
             norm2 == normalize_text(t2)
         IN  IF Contains(norm1, norm2) \/ Contains(norm2, norm1) THEN TRUE
             ELSE IF Len(norm1) > LongLen /\ Len(norm2) > LongLen
                 THEN JaccardExceeds(norm1, norm2, thr)
             ELSE FALSE

\* the emptiness guard testing the stripped texts
is_duplicate_blank_guard(t1, t2, thr) ==
    IF IsBlank(t1) \/ IsBlank(t2) THEN FALSE
    ELSE IF get_text_hash(t1) = get_text_hash(t2) THEN TRUE
    ELSE LET norm1 == normalize_text(t1)
             norm2 == normalize_text(t2)
         IN  IF Len(norm1) < ShortLen /\ Len(norm2) < ShortLen
                 THEN norm1 = norm2
             ELSE IF Contains(norm1, norm2) \/ Contains(norm2, norm1) THEN TRUE
             ELSE IF Len(norm1) > LongLen /\ Len(norm2) > LongLen
                 THEN JaccardExceeds(norm1, norm2, thr)
             ELSE FALSE

\* containment looked for in one direction only
is_duplicate_one_way(t1, t2, thr) ==
    IF t1 = <<>> \/ t2 = <<>> THEN FALSE
    ELSE IF get_text_hash(t1) = get_text_hash(t2) THEN TRUE
    ELSE LET norm1 == normalize_text(t1)
             norm2 == normalize_text(t2)
         IN  IF Len(norm1) < ShortLen /\ Len(norm2) < ShortLen
                 THEN norm1 = norm2
             ELSE IF Contains(norm1, norm2) THEN TRUE
             ELSE IF Len(norm1) > LongLen /\ Len(norm2) > LongLen
                 THEN JaccardExceeds(norm1, norm2, thr)
             ELSE FALSE

(* is_duplicate of Summary-service/app/core.py: the short-text gate measures
   the normalized texts *)
is_duplicate(t1, t2, thr) ==
    IF t1 = <<>> \/ t2 = <<>> THEN FALSE
    ELSE IF get_text_hash(t1) = get_text_hash(t2) THEN TRUE
    ELSE LET norm1 == normalize_text(t1)
             norm2 == normalize_text(t2)
         IN  IF Len(norm1) < ShortLen /\ Len(norm2) < ShortLen
                 THEN norm1 = norm2
             ELSE IF Contains(norm1, norm2) \/ Contains(norm2, norm1) THEN TRUE
             ELSE IF Len(norm1) > LongLen /\ Len(norm2) > LongLen
                 THEN JaccardExceeds(norm1, norm2, thr)
             ELSE FALSE

(* is_duplicate of kc_core.py and Scholar-sphere core.py: the short-text gate
   measures the raw texts *)
kc_is_duplicate(t1, t2, thr) ==
    IF t1 = <<>> \/ t2 = <<>> THEN FALSE
    ELSE IF get_text_hash(t1) = get_text_hash(t2) THEN TRUE
    ELSE IF Len(t1) < ShortLen /\ Len(t2) < ShortLen
        THEN normalize_text(t1) = normalize_text(t2)
    ELSE LET norm1 == normalize_text(t1)
             norm2 == normalize_text(t2)
         IN  IF Contains(norm1, norm2) \/ Contains(norm2, norm1) THEN TRUE
             ELSE IF Len(norm1) > LongLen /\ Len(norm2) > LongLen
                 THEN JaccardExceeds(norm1, norm2, thr)
             ELSE FALSE

----------------------------------------------------------------------------
(* deduplicate_content *)

RECURSIVE DedupLoop(_, _, _)
DedupLoop(cl, i, unique) ==
    IF i > Len(cl) THEN unique
    ELSE LET content == cl[i][1]
             is_dup == \E k \in 1..Len(unique) :
                           is_duplicate(content, unique[k][1], DefaultThreshold)
         IN  IF content = <<>> \/ IsBlank(content) THEN DedupLoop(cl, i + 1, unique)
             ELSE IF ~is_dup THEN DedupLoop(cl, i + 1, Append(unique, cl[i]))
             ELSE DedupLoop(cl, i + 1, unique)

(* Variants of deduplicate_content that a slip in the code would produce *)

\* each fragment compared with the last survivor only
RECURSIVE DedupLoopLastOnly(_, _, _)
DedupLoopLastOnly(cl, i, unique) ==
    IF i > Len(cl) THEN unique
    ELSE LET content == cl[i][1]
             is_dup == /\ unique # <<>>
                       /\ is_duplicate(content, unique[Len(unique)][1], DefaultThreshold)
         IN  IF content = <<>> \/ IsBlank(content) THEN DedupLoopLastOnly(cl, i + 1, unique)
             ELSE IF ~is_dup THEN DedupLoopLastOnly(cl, i + 1, Append(unique, cl[i]))
             ELSE DedupLoopLastOnly(cl, i + 1, unique)

deduplicate_content_last_only(cl) ==
    IF cl = <<>> THEN <<>> ELSE DedupLoopLastOnly(cl, 1, <<>>)

\* whitespace-only fragments not dropped (`if not content` alone)
RECURSIVE DedupLoopKeepBlank(_, _, _)
DedupLoopKeepBlank(cl, i, unique) ==
    IF i > Len(cl) THEN unique
    ELSE LET content == cl[i][1]
             is_dup == \E k \in 1..Len(unique) :
                           is_duplicate(content, unique[k][1], DefaultThreshold)
         IN  IF content = <<>> THEN DedupLoopKeepBlank(cl, i + 1, unique)
             ELSE IF ~is_dup THEN DedupLoopKeepBlank(cl, i + 1, Append(unique, cl[i]))
             ELSE DedupLoopKeepBlank(cl, i + 1, unique)

deduplicate_content_keep_blank(cl) ==
    IF cl = <<>> THEN <<>> ELSE DedupLoopKeepBlank(cl, 1, <<>>)

\* the loop stopping one fragment early
deduplicate_content_off_by_one(cl) ==
    IF cl = <<>> THEN <<>> ELSE DedupLoop(SubSeq(cl, 1, Len(cl) - 1), 1, <<>>)

deduplicate_content(cl) == IF cl = <<>> THEN <<>> ELSE DedupLoop(cl, 1, <<>>)

RECURSIVE KcDedupLoop(_, _, _, _)
KcDedupLoop(cl, i, unique, seen_hashes) ==
    IF i > Len(cl) THEN unique
    ELSE LET content == cl[i][1]
             content_hash == get_text_hash(content)
             hash_dup == \E k \in 1..Len(seen_hashes) : content_hash = seen_hashes[k]
             is_dup == \/ hash_dup
                       \/ \E k \in 1..Len(unique) :
                              kc_is_duplicate(content, unique[k][1], DefaultThreshold)
         IN  IF content = <<>> \/ IsBlank(content)
                 THEN KcDedupLoop(cl, i + 1, unique, seen_hashes)
             ELSE IF ~is_dup
                 THEN KcDedupLoop(cl, i + 1, Append(unique, cl[i]),
                                  Append(seen_hashes, content_hash))
             ELSE KcDedupLoop(cl, i + 1, unique, seen_hashes)

kc_deduplicate_content(cl) == IF cl = <<>> THEN <<>> ELSE KcDedupLoop(cl, 1, <<>>, <<>>)

IsDup(v, t1, t2, thr) ==
    IF v = "core" THEN is_duplicate(t1, t2, thr) ELSE kc_is_duplicate(t1, t2, thr)

Dedup(v, cl) ==
    IF v = "core" THEN deduplicate_content(cl) ELSE kc_deduplicate_content(cl)

----------------------------------------------------------------------------
(* Source fetchers.  What the upstream answers is an outcome of the request:
     network_error  the request raises a connection error
     timeout        the request raises asyncio.TimeoutError
     non_200        an HTTP status other than 200
     malformed      a body that cannot be parsed (invalid JSON or XML, a file
                    that is no PDF)
     wrong_shape    valid JSON that is not an object (a non-empty array)
     no_data_key    Semantic Scholar: an object without the "data" key
     empty_results  a well-formed answer that holds no result: an empty
                    "data" list, no "message", no open-access location,
                    a feed without entry, a PDF without text
     no_content     a result that carries none of the wanted text
     ok             a result with the text (for Semantic Scholar: "tldr" null)
     ok_tldr        Semantic Scholar: a result with abstract and tldr
   A fetcher returns None, a text, a dict, or raises. *)

RetNone == [kind |-> "none"]
RetText(t) == [kind |-> "text", text |-> t]
RetDict(abstract, tldr) == [kind |-> "dict", abstract |-> abstract, tldr |-> tldr]
RetRaise(e) == [kind |-> "raise", exc |-> e]

RequestFailures == {"network_error", "timeout", "non_200", "malformed"}

JsonOutcomes == RequestFailures \cup {"wrong_shape", "empty_results", "no_content", "ok"}
S2Outcomes == JsonOutcomes \cup {"no_data_key", "ok_tldr"}
PdfOutcomes == RequestFailures \cup {"empty_results", "ok"}
XmlOutcomes == RequestFailures \cup {"empty_results", "no_content", "ok"}

(* _fetch_json: any exception of the request, of raise_for_status or of
   resp.json() gives None; otherwise the decoded payload *)
_fetch_json(u) == IF u \in RequestFailures THEN NULL ELSE u

(* core.py fetch_semantic_scholar_data:
   return data.get("data", [None])[0] if data else None *)
fetch_semantic_scholar_data(u, abstract, tldr) ==
    LET data == _fetch_json(u)
    IN  IF data = NULL THEN RetNone
        ELSE IF data = "wrong_shape" THEN RetRaise("AttributeError")  \* a list has no .get
        ELSE IF data = "no_data_key" THEN RetNone                     \* [None][0]
        ELSE IF data = "empty_results" THEN RetRaise("IndexError")    \* [][0]
        ELSE IF data = "no_content" THEN RetDict(NULL, NULL)
        ELSE IF data = "ok_tldr" THEN RetDict(abstract, tldr)
        ELSE RetDict(abstract, NULL)

(* core.py fetch_unpaywall_text; u2 is the outcome of the PDF download *)
fetch_unpaywall_text(doi, u, u2, body) ==
    IF ~doi THEN RetNone
    ELSE LET data == _fetch_json(u)
         IN  IF data = NULL THEN RetNone
             ELSE IF data = "wrong_shape" THEN RetRaise("AttributeError")
             ELSE IF data \in {"empty_results", "no_content"} THEN RetNone
             ELSE IF u2 \in {"network_error", "timeout"} THEN RetNone
             ELSE IF u2 = "non_200" THEN RetNone
             ELSE IF u2 = "malformed" THEN RetNone            \* extract_text_from_pdf: None
             ELSE IF u2 = "empty_results" THEN RetText(<<>>)  \* "\n".join of no page
             ELSE RetText(body)

(* core.py fetch_crossref_data *)
fetch_crossref_data(doi, u, abstract) ==
    IF ~doi THEN RetNone
    ELSE LET data == _fetch_json(u)
         IN  IF data = NULL THEN RetNone
             ELSE IF data = "wrong_shape" THEN RetRaise("AttributeError")
             ELSE IF data = "empty_results" THEN RetNone
             ELSE IF data = "no_content" THEN RetDict(<<>>, NULL)
             ELSE RetDict(abstract, NULL)

(* core.py fetch_arxiv_fulltext; u is the outcome of the PDF download, u2 of
   the abstract query; a downloaded PDF decides the result, with or without
   text, and only a failed download falls back to the abstract *)
fetch_arxiv_fulltext(arxiv_id, u, u2, body, abstract) ==
    IF ~arxiv_id THEN RetNone
    ELSE IF u = "ok" THEN RetText(body)
    ELSE IF u = "empty_results" THEN RetText(<<>>)
    ELSE IF u = "malformed" THEN RetNone
    ELSE IF u2 = "ok" THEN RetText(abstract)
    ELSE RetNone

(* kc_core.py fetch_semantic_data: every exception is swallowed and gives {};
   a null "tldr" makes .get("text") raise, so only a result with a tldr
   object is returned *)
fetch_semantic_data(u, abstract, tldr) ==
    IF u = "ok_tldr" THEN RetDict(abstract, tldr)
    ELSE RetDict(NULL, NULL)

(* kc_core.py fetch_unpaywall *)
fetch_unpaywall(doi, u, u2, body) ==
    IF ~doi THEN RetNone
    ELSE IF u = "ok" /\ u2 = "ok" THEN RetText(body)
    ELSE RetNone

(* kc_core.py fetch_crossref_data: {} when the request fails, the fields of
   an empty message when there is none *)
kc_fetch_crossref_data(doi, u, abstract) ==
    IF ~doi THEN RetDict(NULL, NULL)
    ELSE IF u = "ok" THEN RetDict(abstract, NULL)
    ELSE IF u \in {"no_content", "empty_results"} THEN RetDict(<<>>, NULL)
    ELSE RetDict(NULL, NULL)

(* kc_core.py fetch_arxiv_pdf *)
fetch_arxiv_pdf(arxiv_id, u, body) ==
    IF ~arxiv_id THEN RetNone
    ELSE IF u = "ok" THEN RetText(body)
    ELSE RetNone

(* A variant of fetch_arxiv_fulltext that a slip in the code would produce *)

\* the abstract returned whatever the status of the abstract query
kc_fetch_arxiv_fulltext_unchecked(arxiv_id, u, u2, body, abstract) ==
    IF ~arxiv_id THEN RetNone
    ELSE LET pdf_text == fetch_arxiv_pdf(arxiv_id, u, body)
         IN  IF pdf_text.kind = "text" THEN pdf_text
             ELSE RetText(abstract)

(* kc_core.py fetch_arxiv_fulltext: the PDF first, then the abstract *)
kc_fetch_arxiv_fulltext(arxiv_id, u, u2, body, abstract) ==
    IF ~arxiv_id THEN RetNone
    ELSE LET pdf_text == fetch_arxiv_pdf(arxiv_id, u, body)
         IN  IF pdf_text.kind = "text" THEN pdf_text
             ELSE IF u2 = "ok" THEN RetText(abstract)
             ELSE RetNone

----------------------------------------------------------------------------
(* The texts the operations are exercised on *)

Rep(c, n) == Text([i \in 1..n |-> c])

WordLen == 9

RECURSIVE Sentence(_)
Sentence(letters) ==
    IF Len(letters) = 0 THEN <<>>
    ELSE IF Len(letters) = 1 THEN Rep(letters[1], WordLen)
    ELSE Rep(letters[1], WordLen) \o <<" ">> \o Sentence(Tail(letters))

Alphabet == <<"a", "b", "c", "d", "e", "f", "g", "h", "i", "j", "k", "l", "m",
              "n", "o", "p", "q", "r", "s", "t", "u", "v", "w", "x", "y", "z">>

Empty == <<>>
Blank == <<" ", "\t">>
DeepA == <<"D","e","e","p"," ","l","e","a","r","n","i","n","g"," ","i","s"," ",
           "g","r","e","a","t",".">>
DeepB == <<"d","e","e","p"," ","l","e","a","r","n","i","n","g"," ","i","s"," ",
           "g","r","e","a","t">>
DeepSpaced == <<" ","d","e","e","p"," ","\t","l","e","a","r","n","i","n","g","\n",
                "i","s"," ","g","r","e","a","t","."," ">>
Other == <<"A"," ","t","o","t","a","l","l","y"," ","d","i","f","f","e","r","e","n","t",
           " ","s","e","n","t","e","n","c","e",".">>
Short2 == Sentence(SubSeq(Alphabet, 1, 2))
Mid12 == Sentence(SubSeq(Alphabet, 1, 12))
Mid12r == Sentence(SubSeq(Alphabet, 2, 12) \o <<"a">>)
Mid12pad == Rep(" ", 45) \o Mid12r \o Rep(" ", 45)
Long22 == Sentence(SubSeq(Alphabet, 1, 22))
Long22r == Sentence(SubSeq(Alphabet, 2, 22) \o <<"a">>)
Long21x == Sentence(SubSeq(Alphabet, 1, 21) \o <<"w">>)
Long20xy == Sentence(SubSeq(Alphabet, 1, 20) \o <<"w", "x">>)

Pool == {Empty, Blank, DeepA, DeepB, DeepSpaced, Other, Short2, Mid12, Mid12r,
         Mid12pad, Long22, Long22r, Long21x, Long20xy}

DedupPool == {Empty, Blank, DeepA, DeepB, DeepSpaced, Other, Long22, Long21x, Long20xy}

Labels == <<"A", "B", "C", "D", "E">>

MaxFrags == 3

Thresholds == {<<9, 10>>, <<4, 5>>}

----------------------------------------------------------------------------
(* What the upstream sources hold for a paper *)

OpenAlexAbstract == DeepA
UnpaywallPdf == Other
S2Abstract == DeepSpaced
S2Tldr == DeepB
CrossrefAbstract == <<"<", "p", ">">> \o DeepA \o <<"<", "/", "p", ">">>
ArxivPdf == <<"C","o","p","y","r","i","g","h","t"," ","X","\n">> \o Short2
ArxivAbstract == DeepB

Fetchers == {"unpaywall", "semantic_scholar", "crossref", "arxiv"}

FirstOutcomes(f) ==
    IF f = "arxiv" THEN PdfOutcomes
    ELSE IF f = "semantic_scholar" THEN S2Outcomes
    ELSE JsonOutcomes

SecondOutcomes(f) ==
    IF f = "arxiv" THEN XmlOutcomes
    ELSE IF f = "unpaywall" THEN PdfOutcomes
    ELSE {"ok"}

(* The call of fetcher f of implementation v for a paper that has (id) or
   lacks the identifier the fetcher needs *)
Fetch(v, f, id, u, u2) ==
    IF v = "core" THEN
        CASE f = "unpaywall" -> fetch_unpaywall_text(id, u, u2, UnpaywallPdf)
          [] f = "semantic_scholar" -> fetch_semantic_scholar_data(u, S2Abstract, S2Tldr)
          [] f = "crossref" -> fetch_crossref_data(id, u, CrossrefAbstract)
          [] f = "arxiv" -> fetch_arxiv_fulltext(id, u, u2, ArxivPdf, ArxivAbstract)
    ELSE
        CASE f = "unpaywall" -> fetch_unpaywall(id, u, u2, UnpaywallPdf)
          [] f = "semantic_scholar" -> fetch_semantic_data(u, S2Abstract, S2Tldr)
          [] f = "crossref" -> kc_fetch_crossref_data(id, u, CrossrefAbstract)
          [] f = "arxiv" -> kc_fetch_arxiv_fulltext(id, u, u2, ArxivPdf, ArxivAbstract)

\* what a call of fetcher f can give its caller, over every upstream outcome
Returns(v, f, id) ==
    {Fetch(v, f, id, u, u2) : u \in FirstOutcomes(f), u2 \in SecondOutcomes(f)}

----------------------------------------------------------------------------
(* Enrichment: the fragments of a paper, deduplicated and merged *)

Pending == [kind |-> "pending"]

\* Python truthiness of an optional text
Truthy(t) == t # NULL /\ t # <<>>

IsText(r) == r.kind = "text" /\ Truthy(r.text)

HasAbstract(r) == r.kind = "dict" /\ Truthy(r.abstract)

HasTldr(r) == r.kind = "dict" /\ Truthy(r.tldr)

One(cond, text, label) == IF cond THEN <<<<text, label>>>> ELSE <<>>

Separator == <<"\n", "\n", "-", "-", "-", "\n", "\n">>
BlankLine == <<"\n", "\n">>
SummaryPrefix == <<"S", "u", "m", "m", "a", "r", "y", ":", " ">>

ArxivPdfLen == 1000

\* the identifier a fetcher is called with
HasId(paper, f) ==
    CASE f \in {"unpaywall", "crossref"} -> paper.doi
      [] f = "arxiv" -> paper.arxiv_id
      [] f = "semantic_scholar" -> TRUE      \* the title, always passed

(* core.py enrich_paper_with_full_text, once its gather has returned the four
   results: the abstract first, then Unpaywall, Semantic Scholar, Crossref,
   arXiv *)
content_sources(paper, res) ==
    One(Truthy(paper.abstract), paper.abstract, "OpenAlex")
    \o One(IsText(res["unpaywall"]), res["unpaywall"].text, "Unpaywall PDF")
    \o One(HasAbstract(res["semantic_scholar"]), res["semantic_scholar"].abstract,
           "Semantic Scholar")
    \o One(HasAbstract(res["crossref"]), res["crossref"].abstract, "Crossref")
    \o One(IsText(res["arxiv"]), res["arxiv"].text, "arXiv")

enrich_paper_with_full_text(paper, res) ==
    LET unique == deduplicate_content(content_sources(paper, res))
    IN  [kind |-> "done",
         full_content |-> JoinWith([k \in 1..Len(unique) |-> sanitize_text(unique[k][1])],
                                   Separator),
         content_sources |-> [k \in 1..Len(unique) |-> unique[k][2]]]

(* kc_core.py enrich_papers_with_content, the body of the loop over a batch:
   arXiv, Semantic Scholar abstract and TL;DR, Unpaywall, Crossref, and the
   OpenAlex abstract last; a result that is an exception is no str and no dict *)
kc_content_sources(paper, res) ==
    One(IsText(res["arxiv"]), res["arxiv"].text,
        IF IsText(res["arxiv"]) /\ Len(res["arxiv"].text) > ArxivPdfLen
            THEN "arXiv PDF" ELSE "arXiv Abstract")
    \o One(HasAbstract(res["semantic_scholar"]), res["semantic_scholar"].abstract,
           "Semantic Scholar")
    \o One(HasTldr(res["semantic_scholar"]), SummaryPrefix \o res["semantic_scholar"].tldr,
           "Semantic Scholar TL;DR")
    \o One(IsText(res["unpaywall"]), res["unpaywall"].text, "Unpaywall OA")
    \o One(HasAbstract(res["crossref"]), res["crossref"].abstract, "Crossref")
    \o One(Truthy(paper.abstract), paper.abstract, "OpenAlex")

kc_enrich_paper(paper, res) ==
    LET unique == kc_deduplicate_content(kc_content_sources(paper, res))
        combined_content == [k \in 1..Len(unique) |-> unique[k][1]]
    IN  [kind |-> "done",
         full_content |-> JoinWith(combined_content, BlankLine),
         has_fulltext |-> combined_content # <<>>,
         content_sources |-> [k \in 1..Len(unique) |-> unique[k][2]],
         tldr |-> IF HasTldr(res["semantic_scholar"])
                      THEN res["semantic_scholar"].tldr ELSE NULL]

PaperSeq == <<"p1", "p2">>

Papers == {PaperSeq[i] : i \in 1..Len(PaperSeq)}

max_concurrent == 5

\* papers[i:i+max_concurrent]
Batch(i) == {PaperSeq[k] : k \in {j \in 1..Len(PaperSeq) : j >= i /\ j < i + max_concurrent}}

----------------------------------------------------------------------------
(* The Neo4j cache *)

STALE_DAYS == 15
DayMs == 24 * 60 * 60 * 1000
STALE_MS == STALE_DAYS * DayMs

\* a number property that is null (None)
NoNumber == -1

\* is_stale with the window's edge counted as stale
is_stale_inclusive(last_updated_ts, now_ms, max_age_ms) ==
    IF last_updated_ts = NoNumber \/ last_updated_ts = 0 THEN TRUE
    ELSE LET age == now_ms - last_updated_ts
         IN  age >= max_age_ms

(* is_stale; now_ms is int(time.time() * 1000) *)
is_stale(last_updated_ts, now_ms, max_age_ms) ==
    IF last_updated_ts = NoNumber \/ last_updated_ts = 0 THEN TRUE
    ELSE LET age == now_ms - last_updated_ts
         IN  age > max_age_ms

\* json.dumps and json.loads
json_dumps(value) == <<"json", value>>
json_loads(text) == text[2]

\* a JSON text property that is null or the empty string
NoJson == <<>>

\* Python truthiness of an optional string
Present(v) == v # NULL /\ v # ""

\* what a cache read returns on a hit
Hit(payload) == [kind |-> "hit", payload |-> payload]

\* a cache write as it was called: the record it was given, whether the
\* session worked, and whether the graph held a node with the key before
Put(info, db_ok, existed) == [kind |-> "put", info |-> info, db_ok |-> db_ok, existed |-> existed]

(* Summary-service neo4j_repository.py get_author_summary_from_neo4j; node
   holds the properties of the Author node with the id, all null when the
   graph has no such node *)
get_author_summary_from_neo4j(node, now_ms) ==
    IF node.researchSummary = NULL THEN RetNone                  \* no record
    ELSE IF ~Present(node.researchSummary) THEN RetNone
    ELSE IF is_stale(node.lastUpdated, now_ms, STALE_MS) THEN RetNone
    ELSE Hit([research_summary |-> node.researchSummary,
              papers_analyzed_count |-> node.papersAnalyzedCount,
              papers_sample |-> IF node.papersSampleJson # NoJson
                                    THEN json_loads(node.papersSampleJson) ELSE <<>>])

(* Scholar-sphere neo4j_repository.py get_author_summary_from_neo4j *)
ss_get_author_summary_from_neo4j(node) ==
    IF node.researchSummary = NULL THEN RetNone
    ELSE IF ~Present(node.researchSummary) THEN RetNone
    ELSE Hit([research_summary |-> node.researchSummary,
              papers_analyzed_count |-> node.papersAnalyzedCount,
              papers_sample |-> IF node.papersSampleJson # NoJson
                                    THEN json_loads(node.papersSampleJson) ELSE <<>>])

(* Summary-service neo4j_repository.py get_paper_cache_from_neo4j *)
get_paper_cache_from_neo4j(node, now_ms) ==
    IF node.summary = NULL \/ node.infoJson = NoJson THEN RetNone
    ELSE IF ~Present(node.summary) \/ node.infoJson = NoJson THEN RetNone
    ELSE IF is_stale(node.summaryLastUpdated, now_ms, STALE_MS) THEN RetNone
    ELSE Hit([summary |-> node.summary, paper_info |-> json_loads(node.infoJson)])

(* Scholar-sphere neo4j_repository.py get_paper_cache_from_neo4j *)
ss_get_paper_cache_from_neo4j(node) ==
    IF node.summary = NULL \/ node.infoJson = NoJson THEN RetNone
    ELSE IF ~Present(node.summary) \/ node.infoJson = NoJson THEN RetNone
    ELSE Hit([summary |-> node.summary, paper_info |-> json_loads(node.infoJson)])

GetAuthor(v, node, now_ms) ==
    IF v = "summary_service" THEN get_author_summary_from_neo4j(node, now_ms)
    ELSE ss_get_author_summary_from_neo4j(node)

GetPaper(v, node, now_ms) ==
    IF v = "summary_service" THEN get_paper_cache_from_neo4j(node, now_ms)
    ELSE ss_get_paper_cache_from_neo4j(node)

\* the properties of a node the graph does not hold, or that MERGE creates
NoAuthor ==
    [displayName |-> NULL, researchSummary |-> NULL, papersAnalyzedCount |-> NoNumber,
     papersSampleJson |-> NoJson, lastUpdated |-> NoNumber]

NoWork ==
    [title |-> NULL, summary |-> NULL, infoJson |-> NoJson, summaryLastUpdated |-> NoNumber]

\* save_author_summary_to_neo4j that sets the summary of a new node only
save_author_summary_on_create(node, author_info, summary_data, now_ms, db_ok) ==
    IF ~Present(author_info.id) \/ ~Present(author_info.display_name) THEN node
    ELSE IF ~db_ok THEN node
    ELSE [node EXCEPT
             !.displayName = author_info.display_name,
             !.researchSummary = IF node = NoAuthor
                                     THEN summary_data.research_summary ELSE @,
             !.papersAnalyzedCount = summary_data.papers_analyzed_count,
             !.papersSampleJson = json_dumps(summary_data.papers_sample),
             !.lastUpdated = now_ms]

(* save_author_summary_to_neo4j (the same in both repositories): the node
   after the call; db_ok is false when the session raises, which is logged *)
save_author_summary_to_neo4j(node, author_info, summary_data, now_ms, db_ok) ==
    IF ~Present(author_info.id) \/ ~Present(author_info.display_name) THEN node
    ELSE IF ~db_ok THEN node
    ELSE [node EXCEPT
             !.displayName = author_info.display_name,
             !.researchSummary = summary_data.research_summary,
             !.papersAnalyzedCount = summary_data.papers_analyzed_count,
             !.papersSampleJson = json_dumps(summary_data.papers_sample),
             !.lastUpdated = now_ms]

(* Scholar-sphere-domain neo4j_repository.py save_summary_to_neo4j: the
   summary and the timestamp alone *)
save_summary_to_neo4j(node, author_info, summary, now_ms, db_ok) ==
    IF ~Present(author_info.id) \/ ~Present(author_info.display_name) THEN node
    ELSE IF ~db_ok THEN node
    ELSE IF node = NoAuthor                                      \* ON CREATE SET
        THEN [node EXCEPT !.displayName = author_info.display_name,
                          !.researchSummary = summary,
                          !.lastUpdated = now_ms]
    ELSE [node EXCEPT !.researchSummary = summary, !.lastUpdated = now_ms]

(* save_paper_cache_to_neo4j: the key is paper_info["openalex_id"] in
   Summary-service and paper_info["id"] in Scholar-sphere *)
PaperKey(v, paper_info) ==
    IF v = "summary_service" THEN paper_info.openalex_id ELSE paper_info.id

save_paper_cache_to_neo4j(v, node, paper_info, summary, now_ms, db_ok) ==
    IF ~Present(PaperKey(v, paper_info)) \/ ~Present(paper_info.title) THEN node
    ELSE IF ~db_ok THEN node
    ELSE [node EXCEPT
             !.title = IF node = NoWork THEN paper_info.title ELSE @,  \* ON CREATE SET
             !.summary = summary,
             !.infoJson = json_dumps(paper_info),
             !.summaryLastUpdated = now_ms]

AuthorIds == {"A1"}
WorkIds == {"W1"}

Epoch == DayMs

MaxClockDays == 20

\* the instants the clock is read at: the start, the edge of the freshness
\* window of a record written at the start, one millisecond later, and the end
ClockValues ==
    {Epoch, Epoch + STALE_MS, Epoch + STALE_MS + 1, Epoch + MaxClockDays * DayMs}

\* nodes written before the run, by this service or by another writer of the
\* graph: every combination of present and missing properties
StoredAuthors ==
    {NoAuthor} \cup
    {[displayName |-> "Ada", researchSummary |-> s, papersAnalyzedCount |-> c,
      papersSampleJson |-> j, lastUpdated |-> t] :
        s \in {NULL, "", "old summary"}, c \in {NoNumber, 3},
        j \in {NoJson, json_dumps(<<"old paper">>)}, t \in {NoNumber, Epoch}}

StoredWorks ==
    {NoWork} \cup
    {[title |-> "T", summary |-> s, infoJson |-> j, summaryLastUpdated |-> t] :
        s \in {NULL, "", "old summary"},
        j \in {NoJson, json_dumps([id |-> "W1", openalex_id |-> "W1", title |-> "T"])},
        t \in {NoNumber, Epoch}}

AuthorInfos == {[id |-> a, display_name |-> n] : a \in AuthorIds, n \in {"Ada", NULL}}

PaperInfos == {[id |-> w, openalex_id |-> w, title |-> t] : w \in WorkIds, t \in {"T", ""}}

NewSummaryData ==
    [research_summary |-> "new summary", papers_analyzed_count |-> 1,
     papers_sample |-> <<"new paper">>]

----------------------------------------------------------------------------
(* Specification of the deduplication engine: a fragment list is handed to
   deduplicate_content, and the result is handed to it again *)

DedupIdle ==
    /\ content_list = <<>>
    /\ unique_content = <<>>
    /\ second_pass = <<>>
    /\ dpc = "idle"

IsDupIdle ==
    /\ text1 = <<>>
    /\ text2 = <<>>
    /\ threshold = DefaultThreshold
    /\ dup_result = FALSE
    /\ ipc = "idle"

FetchIdle ==
    /\ fetcher = "unpaywall"
    /\ has_id = FALSE
    /\ upstream = "ok"
    /\ upstream2 = "ok"
    /\ fetch_ret = RetNone
    /\ fpc = "idle"

EnrichIdle ==
    /\ papers = <<>>
    /\ results = <<>>
    /\ enriched = <<>>
    /\ batch_start = 1
    /\ req = "idle"

ByIdIdle ==
    /\ rq = <<>>
    /\ write_log = <<>>

SumIdle ==
    /\ sum_in = <<>>
    /\ sum_paper = <<>>
    /\ llm_key = FALSE
    /\ llm_attempts = <<>>
    /\ llm_waits = <<>>
    /\ llm_calls = 0
    /\ summary_out = <<>>
    /\ spc = "idle"

AuthorIdle ==
    /\ au_in = [name |-> <<>>, papers |-> <<>>]
    /\ au_sample = <<>>
    /\ au_out = <<>>
    /\ apc = "idle"

TrimIdle ==
    /\ trim_in = <<>>
    /\ trim_out = <<>>
    /\ tpc = "idle"

DecodeIdle ==
    /\ inv_index = [kind |-> "absent", entries |-> <<>>]
    /\ decoded = RetNone
    /\ xpc = "idle"

PureIdle == TrimIdle /\ DecodeIdle

BatchIdle ==
    /\ num_papers = 0
    /\ issued = {}
    /\ outstanding = <<>>
    /\ batch_i = 0
    /\ bpc = "idle"

ServiceIdle == ByIdIdle /\ SumIdle /\ AuthorIdle /\ PureIdle /\ BatchIdle

CacheIdle ==
    /\ repo = "summary_service"
    /\ authors = [a \in AuthorIds |-> NoAuthor]
    /\ works = [w \in WorkIds |-> NoWork]
    /\ now = Epoch
    /\ ckey = NULL
    /\ cache_ret = RetNone
    /\ cpc = "idle"

DedupInit ==
    /\ impl \in {"core", "kc"}
    /\ \E n \in 0..MaxFrags : \E texts \in [1..n -> DedupPool] :
           content_list = [i \in 1..n |-> <<texts[i], Labels[i]>>]
    /\ unique_content = <<>>
    /\ second_pass = <<>>
    /\ dpc = "input"
    /\ IsDupIdle /\ FetchIdle /\ EnrichIdle /\ CacheIdle /\ ServiceIdle

Deduplicate ==
    /\ dpc = "input"
    /\ unique_content' = Dedup(impl, content_list)
    /\ dpc' = "deduped"
    /\ UNCHANGED <<impl, content_list, second_pass, text1, text2, threshold, dup_result, ipc>>
    /\ UNCHANGED <<fetchVars, enrichVars, cacheVars, serviceVars>>

DeduplicateAgain ==
    /\ dpc = "deduped"
    /\ second_pass' = Dedup(impl, unique_content)
    /\ dpc' = "rededuped"
    /\ UNCHANGED <<impl, content_list, unique_content, text1, text2, threshold, dup_result, ipc>>
    /\ UNCHANGED <<fetchVars, enrichVars, cacheVars, serviceVars>>

DedupNext == Deduplicate \/ DeduplicateAgain

vars == <<textVars, fetchVars, enrichVars, cacheVars, serviceVars>>

SpecDedup == DedupInit /\ [][DedupNext]_vars

(* Specification of the near-duplicate predicate on a pair of texts *)

IsDupInit ==
    /\ impl \in {"core", "kc"}
    /\ text1 \in Pool
    /\ text2 \in Pool
    /\ threshold \in Thresholds
    /\ dup_result = FALSE
    /\ ipc = "input"
    /\ DedupIdle /\ FetchIdle /\ EnrichIdle /\ CacheIdle /\ ServiceIdle

CallIsDuplicate ==
    /\ ipc = "input"
    /\ dup_result' = IsDup(impl, text1, text2, threshold)
    /\ ipc' = "done"
    /\ UNCHANGED <<impl, text1, text2, threshold, content_list, unique_content, second_pass, dpc>>
    /\ UNCHANGED <<fetchVars, enrichVars, cacheVars, serviceVars>>

IsDupNext == CallIsDuplicate

SpecIsDup == IsDupInit /\ [][IsDupNext]_vars

----------------------------------------------------------------------------
(* Specification of a single fetcher call: one of the four fetchers of
   either implementation, on every outcome of its requests *)

FetchInit ==
    /\ impl \in {"core", "kc"}
    /\ fetcher \in Fetchers
    /\ has_id \in BOOLEAN
    /\ upstream \in FirstOutcomes(fetcher)
    /\ upstream2 \in SecondOutcomes(fetcher)
    /\ fetch_ret = RetNone
    /\ fpc = "input"
    /\ DedupIdle /\ IsDupIdle /\ EnrichIdle /\ CacheIdle /\ ServiceIdle

CallFetcher ==
    /\ fpc = "input"
    /\ fetch_ret' = Fetch(impl, fetcher, has_id, upstream, upstream2)
    /\ fpc' = "done"
    /\ UNCHANGED <<fetcher, has_id, upstream, upstream2>>
    /\ UNCHANGED <<textVars, enrichVars, cacheVars, serviceVars>>

FetchNext == CallFetcher

SpecFetch == FetchInit /\ [][FetchNext]_vars

----------------------------------------------------------------------------
(* Specification of the enrichment of the papers of one request.  The
   fetcher tasks of a paper run concurrently and finish in any order.
   core.py: the endpoint gathers one enrich_paper_with_full_text per paper.
   kc_core.py: enrich_papers_with_content gathers the fetchers of a batch. *)

\* a paper with abstract, DOI and arXiv id; one with an abstract only; one with nothing
FullPaper == [abstract |-> OpenAlexAbstract, doi |-> TRUE, arxiv_id |-> TRUE]
AbstractPaper == [abstract |-> OpenAlexAbstract, doi |-> FALSE, arxiv_id |-> FALSE]
BarePaper == [abstract |-> <<>>, doi |-> FALSE, arxiv_id |-> FALSE]

RequestPapers ==
    {[p \in Papers |-> IF p = PaperSeq[1] THEN FullPaper ELSE other] :
        other \in {AbstractPaper, BarePaper}}

EnrichInit ==
    /\ impl \in {"core", "kc"}
    /\ papers \in RequestPapers
    /\ results = [p \in Papers |-> [f \in Fetchers |-> Pending]]
    /\ enriched = [p \in Papers |-> Pending]
    /\ batch_start = 1
    /\ req = "running"
    /\ DedupIdle /\ IsDupIdle /\ FetchIdle /\ CacheIdle /\ ServiceIdle

\* a fetcher task of paper p finishes
FetcherCompletes(p, f) ==
    /\ req = "running"
    /\ enriched[p] = Pending
    /\ results[p][f] = Pending
    /\ impl = "kc" => p \in Batch(batch_start)
    /\ \E r \in Returns(impl, f, HasId(papers[p], f)) :
           results' = [results EXCEPT ![p][f] = r]
    /\ UNCHANGED <<papers, enriched, batch_start, req>>
    /\ UNCHANGED <<textVars, fetchVars, cacheVars, serviceVars>>

\* core.py: the gather of paper p returns, and the paper is assembled
EnrichPaper(p) ==
    /\ impl = "core"
    /\ req = "running"
    /\ enriched[p] = Pending
    /\ \A f \in Fetchers : results[p][f].kind \notin {"pending", "raise"}
    /\ enriched' = [enriched EXCEPT ![p] = enrich_paper_with_full_text(papers[p], results[p])]
    /\ UNCHANGED <<papers, results, batch_start, req>>
    /\ UNCHANGED <<textVars, fetchVars, cacheVars, serviceVars>>

\* core.py: a fetcher task of paper p raised; the gather raises at once and
\* enrich_paper_with_full_text ends with the exception
EnrichRaises(p) ==
    /\ impl = "core"
    /\ req = "running"
    /\ enriched[p] = Pending
    /\ \E f \in Fetchers :
           /\ results[p][f].kind = "raise"
           /\ enriched' = [enriched EXCEPT ![p] = [kind |-> "raised", exc |-> results[p][f].exc]]
    /\ UNCHANGED <<papers, results, batch_start, req>>
    /\ UNCHANGED <<textVars, fetchVars, cacheVars, serviceVars>>

\* the endpoint's gather over the papers returns
RequestDone ==
    /\ impl = "core"
    /\ req = "running"
    /\ \A p \in Papers : enriched[p].kind = "done"
    /\ req' = "ok"
    /\ UNCHANGED <<papers, results, enriched, batch_start>>
    /\ UNCHANGED <<textVars, fetchVars, cacheVars, serviceVars>>

\* the endpoint's gather raises: `except Exception` answers HTTP 500
RequestFails ==
    /\ impl = "core"
    /\ req = "running"
    /\ \E p \in Papers : enriched[p].kind = "raised"
    /\ req' = "error"
    /\ UNCHANGED <<papers, results, enriched, batch_start>>
    /\ UNCHANGED <<textVars, fetchVars, cacheVars, serviceVars>>

\* kc_core.py: the gather of the batch returns; its papers are assembled and
\* the next batch starts, or the function returns
EnrichBatch ==
    /\ impl = "kc"
    /\ req = "running"
    /\ \A p \in Batch(batch_start), f \in Fetchers : results[p][f] # Pending
    /\ enriched' = [p \in Papers |->
                       IF p \in Batch(batch_start) THEN kc_enrich_paper(papers[p], results[p])
                       ELSE enriched[p]]
    /\ batch_start' = batch_start + max_concurrent
    /\ req' = IF batch_start + max_concurrent > Len(PaperSeq) THEN "ok" ELSE "running"
    /\ UNCHANGED <<papers, results>>
    /\ UNCHANGED <<textVars, fetchVars, cacheVars, serviceVars>>

EnrichNext ==
    \/ \E p \in Papers, f \in Fetchers : FetcherCompletes(p, f)
    \/ \E p \in Papers : EnrichPaper(p)
    \/ \E p \in Papers : EnrichRaises(p)
    \/ RequestDone
    \/ RequestFails
    \/ EnrichBatch

SpecEnrich == EnrichInit /\ [][EnrichNext]_vars

----------------------------------------------------------------------------
(* Specification of the cache: reads and writes of one Author node and one
   Work node while time passes *)

CacheInit ==
    /\ repo \in {"summary_service", "scholar_sphere"}
    /\ authors \in [AuthorIds -> StoredAuthors]
    /\ works \in [WorkIds -> StoredWorks]
    /\ now = Epoch
    /\ ckey = NULL
    /\ cache_ret = RetNone
    /\ cpc = "idle"
    /\ impl = "core"
    /\ DedupIdle /\ IsDupIdle /\ FetchIdle /\ EnrichIdle /\ ServiceIdle

\* time passes
Tick ==
    /\ \E t \in ClockValues : t > now /\ now' = t
    /\ ckey' = NULL
    /\ cache_ret' = RetNone
    /\ cpc' = "idle"
    /\ UNCHANGED <<repo, authors, works>>
    /\ UNCHANGED <<textVars, fetchVars, enrichVars, serviceVars>>

GetAuthorSummary(a) ==
    /\ ckey' = a
    /\ cache_ret' = GetAuthor(repo, authors[a], now)
    /\ cpc' = "got_author"
    /\ UNCHANGED <<repo, authors, works, now>>
    /\ UNCHANGED <<textVars, fetchVars, enrichVars, serviceVars>>

GetPaperCache(w) ==
    /\ ckey' = w
    /\ cache_ret' = GetPaper(repo, works[w], now)
    /\ cpc' = "got_paper"
    /\ UNCHANGED <<repo, authors, works, now>>
    /\ UNCHANGED <<textVars, fetchVars, enrichVars, serviceVars>>

SaveAuthorSummary(a) ==
    /\ \E author_info \in {i \in AuthorInfos : i.id = a}, db_ok \in BOOLEAN :
           /\ authors' = [authors EXCEPT ![a] =
                  save_author_summary_to_neo4j(@, author_info, NewSummaryData, now, db_ok)]
           /\ cache_ret' = Put(author_info, db_ok, authors[a] # NoAuthor)
    /\ ckey' = a
    /\ cpc' = "saved_author"
    /\ UNCHANGED <<repo, works, now>>
    /\ UNCHANGED <<textVars, fetchVars, enrichVars, serviceVars>>

\* the by-name endpoint of Scholar-sphere-domain writes to the same graph
SaveSummaryByName(a) ==
    /\ \E author_info \in {i \in AuthorInfos : i.id = a}, db_ok \in BOOLEAN :
           /\ authors' = [authors EXCEPT ![a] =
                  save_summary_to_neo4j(@, author_info, "new summary", now, db_ok)]
           /\ cache_ret' = Put(author_info, db_ok, authors[a] # NoAuthor)
    /\ ckey' = a
    /\ cpc' = "saved_by_name"
    /\ UNCHANGED <<repo, works, now>>
    /\ UNCHANGED <<textVars, fetchVars, enrichVars, serviceVars>>

SavePaperCache(w) ==
    /\ \E paper_info \in {i \in PaperInfos : i.id = w}, db_ok \in BOOLEAN :
           /\ works' = [works EXCEPT ![w] =
                  save_paper_cache_to_neo4j(repo, @, paper_info, "new summary", now, db_ok)]
           /\ cache_ret' = Put(paper_info, db_ok, works[w] # NoWork)
    /\ ckey' = w
    /\ cpc' = "saved_paper"
    /\ UNCHANGED <<repo, authors, now>>
    /\ UNCHANGED <<textVars, fetchVars, enrichVars, serviceVars>>

CacheNext ==
    \/ Tick
    \/ \E a \in AuthorIds : GetAuthorSummary(a)
    \/ \E w \in WorkIds : GetPaperCache(w)
    \/ \E a \in AuthorIds : SaveAuthorSummary(a)
    \/ \E a \in AuthorIds : SaveSummaryByName(a)
    \/ \E w \in WorkIds : SavePaperCache(w)

SpecCache == CacheInit /\ [][CacheNext]_vars

----------------------------------------------------------------------------
(* Properties of the deduplication engine *)

TextOf(frag) == frag[1]
LabelOf(frag) == frag[2]

Deduped == dpc \in {"deduped", "rededuped"}

NonBlankInputs == {i \in 1..Len(content_list) : ~IsBlank(TextOf(content_list[i]))}

(* out is in obtained by deleting entries: a strictly increasing choice of
   positions of in gives out *)
IsSubsequence(out, in) ==
    \E f \in [1..Len(out) -> 1..Len(in)] :
        /\ \A k \in 1..Len(out) : out[k] = in[f[k]]
        /\ \A k \in 1..(Len(out) - 1) : f[k] < f[k + 1]

\* C1: no two entries of the list deduplicate_content returns are
\* near-duplicates of each other under is_duplicate, in either argument order.
C1_NoTwoSurvivorsAreDuplicates ==
    Deduped =>
        \A i, j \in 1..Len(unique_content) :
            i # j => ~IsDup(impl, TextOf(unique_content[i]),
                            TextOf(unique_content[j]), DefaultThreshold)

C1_Witness ==
    /\ dpc = "deduped"
    /\ Len(unique_content) >= 2
    /\ Len(unique_content) < Cardinality(NonBlankInputs)

\* C2: deduplicate_content returns a subsequence of its input: never longer,
\* every returned pair occurs in the input with its label, in input order,
\* and no returned text is empty or whitespace-only.
C2_OutputIsSubsequence ==
    Deduped =>
        /\ Len(unique_content) <= Len(content_list)
        /\ IsSubsequence(unique_content, content_list)
        /\ \A k \in 1..Len(unique_content) : ~IsBlank(TextOf(unique_content[k]))

C2_Witness ==
    /\ dpc = "deduped"
    /\ Len(content_list) = 3
    /\ IsBlank(TextOf(content_list[1]))
    /\ Len(unique_content) = 1
    /\ LabelOf(unique_content[1]) = "B"

ScenarioA == <<<<DeepA, "A">>, <<DeepB, "B">>, <<Other, "C">>>>

C5_Idempotent == dpc = "rededuped" => second_pass = unique_content

C5_Witness ==
    /\ dpc = "rededuped"
    /\ Len(unique_content) >= 2
    /\ Len(unique_content) < Len(content_list)
    /\ second_pass = unique_content

----------------------------------------------------------------------------
(* Properties of the near-duplicate predicate *)

\* (a) the fingerprints match
FingerprintsMatch(t1, t2) == get_text_hash(t1) = get_text_hash(t2)

\* (b) both texts are shorter than 200 characters and normalized-equal
ShortAndEqual(t1, t2) ==
    /\ Len(t1) < ShortLen
    /\ Len(t2) < ShortLen
    /\ normalize_text(t1) = normalize_text(t2)

\* (c) one normalized text is a substring of the other
OneContainsOther(t1, t2) ==
    \/ Contains(normalize_text(t1), normalize_text(t2))
    \/ Contains(normalize_text(t2), normalize_text(t1))

\* (d) both are longer than 100 characters and the Jaccard similarity of
\* their word sets exceeds the threshold
LongAndSimilar(t1, t2, thr) ==
    /\ Len(normalize_text(t1)) > LongLen
    /\ Len(normalize_text(t2)) > LongLen
    /\ JaccardExceeds(normalize_text(t1), normalize_text(t2), thr)

\* the length the short-text gate measures: normalized in core.py, raw in kc_core.py
GateLen(v, t) == IF v = "core" THEN Len(normalize_text(t)) ELSE Len(t)

BothShort(v, t1, t2) == GateLen(v, t1) < ShortLen /\ GateLen(v, t2) < ShortLen

C6_NormalizedEqualAreDuplicates ==
    (ipc = "done" /\ normalize_text(text1) = normalize_text(text2)) => dup_result

\* C6 as amended: two non-empty texts (whitespace-only ones included) that
\* are normalized-equal are duplicates.
C6_NonEmptyNormalizedEqualAreDuplicates ==
    (/\ ipc = "done"
     /\ text1 # <<>>
     /\ text2 # <<>>
     /\ normalize_text(text1) = normalize_text(text2)) => dup_result

C6_Witness ==
    /\ ipc = "done"
    /\ text1 # text2
    /\ ~IsBlank(text1)
    /\ normalize_text(text1) = normalize_text(text2)
    /\ dup_result

----------------------------------------------------------------------------
(* Properties of the source fetchers and of enrichment *)

\* C7: every Source Fetcher returns content or an absent result for every
\* upstream outcome (network error, non-200 status, malformed payload, parse
\* failure, a well-formed response with an empty result list) and never
\* raises an exception to its caller.
C7_FetchersNeverRaise ==
    fpc = "done" => fetch_ret.kind \in {"none", "text", "dict"}

\* the fetchers of paper p that failed: returned None or raised
FailedFetchers(p) == {f \in Fetchers : results[p][f].kind \in {"none", "raise"}}

\* the fetchers of paper p that gave a fragment
SucceededFetchers(p) ==
    {f \in Fetchers : IsText(results[p][f]) \/ HasAbstract(results[p][f])}

OneFetcherFailed(p) ==
    /\ Cardinality(FailedFetchers(p)) = 1
    /\ Cardinality(SucceededFetchers(p)) = Cardinality(Fetchers) - 1

LabelsOf(f) ==
    CASE f = "unpaywall" -> {"Unpaywall PDF", "Unpaywall OA"}
      [] f = "semantic_scholar" -> {"Semantic Scholar", "Semantic Scholar TL;DR"}
      [] f = "crossref" -> {"Crossref"}
      [] f = "arxiv" -> {"arXiv", "arXiv PDF", "arXiv Abstract"}

\* C8: when one of a paper's fetchers fails (returns absent, times out or
\* raises) while the others succeed, the enrichment of that paper is not
\* aborted, its merged content holds fragments of the fetchers that succeeded
\* only, and the request is not aborted for the other papers either.
C8_OneFailureDoesNotAbort ==
    \A p \in Papers :
        OneFetcherFailed(p) =>
            /\ enriched[p].kind # "raised"
            /\ (\A q \in Papers \ {p} : \A f \in Fetchers : results[q][f].kind # "raise")
                   => req # "error"
            /\ enriched[p].kind = "done" =>
                   /\ enriched[p].full_content # <<>>
                   /\ \A k \in 1..Len(enriched[p].content_sources) :
                          \/ enriched[p].content_sources[k] = "OpenAlex"
                          \/ \E f \in SucceededFetchers(p) :
                                 enriched[p].content_sources[k] \in LabelsOf(f)

----------------------------------------------------------------------------
(* Properties of the cache *)

FifteenDaysMs == 15 * 24 * 60 * 60 * 1000

TwentyDaysMs == 20 * 24 * 60 * 60 * 1000

\* a timestamp is missing, or older than the 15-day window
MissingOrOld(ts) == ts = NoNumber \/ now - ts > FifteenDaysMs

\* summary and payload present (the timestamp apart)
HasSummaryAndInfo(node) == Present(node.summary) /\ node.infoJson # NoJson

CompleteAuthor(node) ==
    /\ Present(node.researchSummary)
    /\ node.papersSampleJson # NoJson
    /\ node.papersAnalyzedCount # NoNumber
    /\ node.lastUpdated # NoNumber

CompleteWork(node) ==
    /\ Present(node.summary)
    /\ node.infoJson # NoJson
    /\ node.summaryLastUpdated # NoNumber

\* C10: in every store state a cache read returns a hit only when the stored
\* record is complete: summary, payload and timestamp all present.
C10_HitOnlyForCompleteRecord ==
    /\ (cpc = "got_author" /\ cache_ret.kind = "hit") => CompleteAuthor(authors[ckey])
    /\ (cpc = "got_paper" /\ cache_ret.kind = "hit") => CompleteWork(works[ckey])

----------------------------------------------------------------------------
(* The by-id endpoints of Scholar-sphere api.py: cache read, lookup in
   OpenAlex, enrichment and summary, and the cache write as a background
   task that runs after the response *)

\* an OpenAlex id is a string; Split is id.split('/') on the ids of the model
OpenAlexPrefix == <<"https:", "", "openalex.org">>

AuthorIdForms == {"A1", "https://openalex.org/A1"}
WorkIdForms == {"W1", "works/W1", "https://openalex.org/W1"}
IdForms == AuthorIdForms \cup WorkIdForms

Split(id) ==
    CASE id = "A1" -> <<"A1">>
      [] id = "https://openalex.org/A1" -> OpenAlexPrefix \o <<"A1">>
      [] id = "W1" -> <<"W1">>
      [] id = "works/W1" -> <<"works", "W1">>
      [] id = "https://openalex.org/W1" -> OpenAlexPrefix \o <<"W1">>

\* "/".join(segments)
JoinSlash(segments) == CHOOSE id \in IdForms : Split(id) = segments

Last(s) == s[Len(s)]

\* id.startswith("https://openalex.org/")
StartsWithOpenAlex(id) ==
    LET segments == Split(id)
    IN  Len(segments) > Len(OpenAlexPrefix)
        /\ SubSeq(segments, 1, Len(OpenAlexPrefix)) = OpenAlexPrefix

(* get_paper_summary_by_id: the id the paper cache is read with *)
search_id_full(paper_id) ==
    IF ~StartsWithOpenAlex(paper_id)
        THEN JoinSlash(OpenAlexPrefix \o <<Last(Split(paper_id))>>)
    ELSE paper_id

\* the "id" of the entity OpenAlex answers a lookup with: the full URL
OpenAlexId(id) == JoinSlash(OpenAlexPrefix \o <<Last(Split(id))>>)

(* fetch_author_by_id: the author object of OpenAlex as it came *)
fetch_author_by_id(id) == [id |-> OpenAlexId(id), display_name |-> "Ada"]

(* get_paper_summary_by_id: paper_info as the endpoint maps it from the raw
   work; the mapping sets "openalex_id" and no "id", and enrichment adds
   none, so paper_info.get("id") is None *)
by_id_paper_info(search_id) ==
    [id |-> NULL, openalex_id |-> OpenAlexId(search_id), title |-> "T"]

Requests == {1, 2}

\* the summary a request generates; the LLM answers each request on its own
SummaryText == <<"first summary", "second summary">>

(* get_professor_summary_by_id: response_data *)
response_data(r) ==
    [research_summary |-> SummaryText[r], papers_analyzed_count |-> r,
     papers_sample |-> <<SummaryText[r]>>]

(* get_paper_summary_by_id: the generated response, source aside *)
paper_response(r, search_id) ==
    [summary |-> SummaryText[r], paper_info |-> by_id_paper_info(search_id)]

\* the classes an exception is an instance of
ExceptionBases(e) ==
    CASE e = "HTTPException" -> {"HTTPException", "Exception"}
      [] e = "HTTPError" -> {"HTTPError", "RequestException", "Exception"}
      [] e = "ClientResponseError" -> {"ClientResponseError", "Exception"}
      [] OTHER -> {e, "Exception"}

(* the except clauses of the by-id endpoints of Scholar-sphere api.py: the
   HTTP status the client sees when the try block raises exception e that
   carries status code *)
by_id_except(kind, e, code) ==
    IF kind = "author" /\ "HTTPError" \in ExceptionBases(e)
        THEN IF code = 429 THEN 200 ELSE 500
    ELSE IF "Exception" \in ExceptionBases(e) THEN 500
    ELSE code

\* no earlier writer
NoWriter == NoNumber

NewRequest(kind, key) ==
    [kind |-> kind, key |-> key, pc |-> "new", status |-> NoNumber, source |-> NULL,
     payload |-> RetNone, prior |-> NoWriter, read_at |-> NoNumber,
     saved_at |-> NoNumber, lookups |-> 0, enrichments |-> 0, summaries |-> 0,
     tasks |-> 0, outcome |-> NULL, path |-> NULL]

\* the last request for the same key whose background write completed
LastWrite(kind, key) ==
    LET idx == {i \in 1..Len(write_log) :
                    write_log[i].kind = kind /\ write_log[i].key = key}
    IN  IF idx = {} THEN NoWriter
        ELSE write_log[CHOOSE i \in idx : \A j \in idx : j <= i].writer

\* what the lookup, the enrichment and the summary of a request come to
ByIdOutcomes(kind) ==
    {"found", "not_found", "lookup_error"}
        \cup (IF kind = "author" THEN {"no_papers", "rate_limited"} ELSE {})

\* how the summary of a request came about: the LLM's text, or the degraded
\* paths of generate_author_summary and generate_paper_summary
SummaryPaths(kind) ==
    IF kind = "author" THEN {"llm", "rule_based"} ELSE {"llm", "excerpt", "sentinel"}

DegradedPaths == {"rule_based", "excerpt", "sentinel"}

notByIdVars == <<textVars, fetchVars, enrichVars, ckey, cache_ret, cpc, sumVars, authorVars,
                 pureVars, batchVars>>

ByIdInit ==
    /\ repo \in {"summary_service", "scholar_sphere"}
    /\ authors = [k \in AuthorIdForms |-> NoAuthor]
    /\ works = [k \in WorkIdForms |-> NoWork]
    /\ now = Epoch
    /\ ckey = NULL
    /\ cache_ret = RetNone
    /\ cpc = "idle"
    /\ rq \in [Requests -> {NewRequest("author", k) : k \in AuthorIdForms}
                            \cup {NewRequest("paper", k) : k \in WorkIdForms}]
    /\ write_log = <<>>
    /\ impl = "kc"
    /\ DedupIdle /\ IsDupIdle /\ FetchIdle /\ EnrichIdle /\ SumIdle /\ AuthorIdle /\ PureIdle /\ BatchIdle

ByIdTick ==
    /\ \E t \in ClockValues : t > now /\ now' = t
    /\ UNCHANGED <<repo, authors, works, rq, write_log>>
    /\ UNCHANGED notByIdVars

(* the cache read that opens both endpoints, and the response on a hit *)
ByIdCacheRead(r) ==
    /\ rq[r].pc = "new"
    /\ LET q == rq[r]
           cached == IF q.kind = "author"
                         THEN GetAuthor(repo, authors[q.key], now)
                     ELSE GetPaper(repo, works[search_id_full(q.key)], now)
           hit == cached # RetNone
       IN  rq' = [rq EXCEPT ![r] =
                     [q EXCEPT !.prior = LastWrite(q.kind, q.key),
                               !.read_at = now,
                               !.pc = IF hit THEN "done" ELSE "missed",
                               !.status = IF hit THEN 200 ELSE NoNumber,
                               !.source = IF hit THEN "cache" ELSE NULL,
                               !.payload = IF hit THEN cached.payload ELSE RetNone]]
    /\ UNCHANGED <<repo, authors, works, now, write_log>>
    /\ UNCHANGED notByIdVars

(* the try block of both endpoints after a miss, up to the response *)
ByIdRespond(r) ==
    /\ rq[r].pc = "missed"
    /\ \E outcome \in ByIdOutcomes(rq[r].kind), path \in SummaryPaths(rq[r].kind) :
         LET q == rq[r]
             looked == [q EXCEPT !.lookups = @ + 1, !.outcome = outcome]
         IN  rq' = [rq EXCEPT ![r] =
               CASE outcome = "found" ->
                      [looked EXCEPT !.enrichments = @ + 1, !.summaries = @ + 1,
                                     !.tasks = @ + 1, !.path = path,
                                     !.pc = "responded", !.status = 200,
                                     !.source = "generated",
                                     !.payload = IF q.kind = "author" THEN response_data(r)
                                                 ELSE paper_response(r, search_id_full(q.key))]
                 [] outcome = "not_found" ->
                      [looked EXCEPT !.pc = "done",
                                     !.status = by_id_except(q.kind, "HTTPException", 404)]
                 [] outcome = "lookup_error" ->
                      [looked EXCEPT !.pc = "done",
                                     !.status = by_id_except(q.kind, "ConnectionError", 500)]
                 [] outcome = "no_papers" ->
                      [looked EXCEPT !.pc = "done", !.status = 200]
                 [] outcome = "rate_limited" ->
                      [looked EXCEPT !.enrichments = @ + 1, !.summaries = @ + 1,
                                     !.pc = "done",
                                     !.status = by_id_except(q.kind, "HTTPError", 429)]]
    /\ UNCHANGED <<repo, authors, works, now, write_log>>
    /\ UNCHANGED notByIdVars

(* the background task: save_author_summary_to_neo4j(driver, author_info,
   response_data) or save_paper_cache_to_neo4j(driver, paper_to_cache, summary) *)
ByIdBackgroundSave(r) ==
    /\ rq[r].pc = "responded"
    /\ \E db_ok \in BOOLEAN :
         LET q == rq[r]
             author_info == fetch_author_by_id(q.key)
             paper_info == q.payload.paper_info
             paper_key == PaperKey(repo, paper_info)
         IN  /\ authors' = IF q.kind = "author"
                               THEN [authors EXCEPT ![author_info.id] =
                                        save_author_summary_to_neo4j(
                                            @, author_info, q.payload, now, db_ok)]
                           ELSE authors
             /\ works' = IF q.kind = "paper" /\ Present(paper_key)
                             THEN [works EXCEPT ![paper_key] =
                                      save_paper_cache_to_neo4j(
                                          repo, @, paper_info, q.payload.summary, now, db_ok)]
                         ELSE works
             /\ rq' = [rq EXCEPT ![r] = [q EXCEPT !.pc = IF db_ok THEN "saved" ELSE "save_failed",
                                                  !.saved_at = IF db_ok THEN now ELSE NoNumber]]
             /\ write_log' = IF db_ok
                                 THEN Append(write_log,
                                             [writer |-> r, kind |-> q.kind, key |-> q.key])
                             ELSE write_log
    /\ UNCHANGED <<repo, now>>
    /\ UNCHANGED notByIdVars

ByIdNext ==
    \/ ByIdTick
    \/ \E r \in Requests : ByIdCacheRead(r)
    \/ \E r \in Requests : ByIdRespond(r)
    \/ \E r \in Requests : ByIdBackgroundSave(r)

SpecById == ByIdInit /\ [][ByIdNext]_vars

(* C11: a request for key k that follows a request for the same k whose
   generated response was written to the cache, inside the freshness window,
   is a cache hit with the payload that was written; and put stores under the
   key get looks up *)
PutKey(r) ==
    IF rq[r].kind = "author" THEN fetch_author_by_id(rq[r].key).id
    ELSE PaperKey(repo, rq[r].payload.paper_info)

GetKey(r) ==
    IF rq[r].kind = "author" THEN rq[r].key ELSE search_id_full(rq[r].key)

FollowsFreshWrite(r) ==
    /\ rq[r].pc # "new"
    /\ rq[r].prior # NoWriter
    /\ rq[r].read_at - rq[rq[r].prior].saved_at <= STALE_MS

C11_CacheRoundTrip ==
    \A r \in Requests :
        /\ FollowsFreshWrite(r) =>
               /\ rq[r].source = "cache"
               /\ rq[r].payload = rq[rq[r].prior].payload
        /\ rq[r].pc = "saved" => PutKey(r) = GetKey(r)

\* the round trip does happen for an author asked for by the full URL
C11_RoundTripHappens ==
    \E r \in Requests : FollowsFreshWrite(r) /\ rq[r].source = "cache"

(* C12: under every interleaving of requests for the same key, the record of
   a key is absent or is the complete record of one writer (summary, payload
   and timestamp written by the same background task); a read that hits
   returns the payload of one writer; and when no write is outstanding the
   record is that of the last writer *)
WroteAuthor(w, node) ==
    /\ rq[w].kind = "author"
    /\ rq[w].pc = "saved"
    /\ node.researchSummary = rq[w].payload.research_summary
    /\ node.papersAnalyzedCount = rq[w].payload.papers_analyzed_count
    /\ node.papersSampleJson = json_dumps(rq[w].payload.papers_sample)
    /\ node.lastUpdated = rq[w].saved_at

WroteWork(w, node) ==
    /\ rq[w].kind = "paper"
    /\ rq[w].pc = "saved"
    /\ node.summary = rq[w].payload.summary
    /\ node.infoJson = json_dumps(rq[w].payload.paper_info)
    /\ node.summaryLastUpdated = rq[w].saved_at

\* the requests whose write reached the record of key k, in the order of writing
WritersOf(kind, k) ==
    SelectSeq(write_log, LAMBDA e : e.kind = kind /\ PutKey(e.writer) = k)

SameKeyRequests == \A r, w \in Requests : GetKey(r) = GetKey(w) /\ rq[r].kind = rq[w].kind

WritesOutstanding == \E r \in Requests : rq[r].pc \in {"new", "missed", "responded"}

C12_RecordOfOneWriter ==
    SameKeyRequests =>
        /\ \A k \in DOMAIN authors :
               /\ authors[k] = NoAuthor \/ \E w \in Requests : WroteAuthor(w, authors[k])
               /\ (~WritesOutstanding /\ WritersOf("author", k) # <<>>) =>
                      WroteAuthor(Last(WritersOf("author", k)).writer, authors[k])
        /\ \A k \in DOMAIN works :
               /\ works[k] = NoWork \/ \E w \in Requests : WroteWork(w, works[k])
               /\ (~WritesOutstanding /\ WritersOf("paper", k) # <<>>) =>
                      WroteWork(Last(WritersOf("paper", k)).writer, works[k])
        /\ \A r \in Requests :
               rq[r].source = "cache" =>
                   \E w \in Requests \ {r} : rq[w].pc = "saved" /\ rq[r].payload = rq[w].payload

\* two requests for the same author both missed, and both wrote, at different times
C12_TwoWritersSameKey ==
    /\ SameKeyRequests
    /\ Len(WritersOf("author", "https://openalex.org/A1")) = 2
    /\ rq[1].saved_at # rq[2].saved_at
    /\ ~WritesOutstanding

----------------------------------------------------------------------------
(* Paper summaries: generate_with_groq and generate_paper_summary *)

\* str.strip()
Strip(text) ==
    IF IsBlank(text) THEN <<>>
    ELSE LET n == Len(text)
             first == CHOOSE i \in 1..n :
                          ~IsSpace(text[i]) /\ \A j \in 1..(i - 1) : IsSpace(text[j])
             last == CHOOSE i \in 1..n :
                         ~IsSpace(text[i]) /\ \A j \in (i + 1)..n : IsSpace(text[j])
         IN  SubSeq(text, first, last)

\* text[:n]
Prefix(text, n) == SubSeq(text, 1, IF n < Len(text) THEN n ELSE Len(text))

SentenceEnd == {".", "?", "!"}

\* max(text.rfind('.'), text.rfind('?'), text.rfind('!')) + 1: the position
\* of the last sentence end, 0 when there is none
LastPunc(text) ==
    LET ends == {i \in 1..Len(text) : text[i] \in SentenceEnd}
    IN  IF ends = {} THEN 0 ELSE CHOOSE i \in ends : \A j \in ends : j <= i

(* A variant of trim_to_last_sentence that a slip in the code would produce *)

\* the cut made before the sentence end: text[:last_punc]
trim_to_last_sentence_exclusive(text) ==
    IF text = <<>> THEN text
    ELSE IF LastPunc(text) # 0 THEN Strip(Prefix(text, LastPunc(text) - 1))
    ELSE Strip(text)

(* core.py trim_to_last_sentence *)
trim_to_last_sentence(text) ==
    IF text = <<>> THEN text
    ELSE IF LastPunc(text) # 0 THEN Strip(Prefix(text, LastPunc(text)))
    ELSE Strip(text)

TrimSlack == 10

(* kc_core.py trim_to_last_sentence: a sentence end within the last ten
   characters leaves the text whole *)
kc_trim_to_last_sentence(text) ==
    IF text = <<>> THEN text
    ELSE LET last_dot == LastPunc(text) - 1
         IN  IF last_dot = -1 \/ last_dot < Len(text) - TrimSlack
                 THEN IF last_dot # -1 THEN Strip(Prefix(text, last_dot + 1))
                      ELSE Strip(text)
             ELSE Strip(text)

Trim(v, text) ==
    IF v = "core" THEN trim_to_last_sentence(text) ELSE kc_trim_to_last_sentence(text)

Ellipsis == <<".", ".", ".">>

\* re.sub(r'^\s*Summary\s*:\s*', '', text, flags=re.I)
SummaryWord == <<"s", "u", "m", "m", "a", "r", "y">>

SkipSpace(text, i) ==
    LET rest == {j \in i..Len(text) : ~IsSpace(text[j])}
    IN  IF rest = {} THEN Len(text) + 1 ELSE CHOOSE j \in rest : \A k \in rest : j <= k

RemoveSummaryHeading(text) ==
    LET w == SkipSpace(text, 1)
        c == SkipSpace(text, w + Len(SummaryWord))
    IN  IF /\ w + Len(SummaryWord) - 1 <= Len(text)
           /\ LowerText(SubSeq(text, w, w + Len(SummaryWord) - 1)) = SummaryWord
           /\ c <= Len(text)
           /\ text[c] = ":"
            THEN SubSeq(text, SkipSpace(text, c + 1), Len(text))
        ELSE text

\* what one request to the LLM endpoint comes to: a failure, or HTTP 200 with
\* a body that holds generated text, an empty "content", or no choice at all
LlmFailures == {"rate_limited", "http_error", "connection_error", "timeout", "bad_json"}
LlmBodies == {"text", "empty_content", "no_choices"}
LlmOutcomes == LlmFailures \cup LlmBodies

\* the text the LLM generates
LlmOutput ==
    <<" ","S","u","m","m","a","r","y",":"," ","<","b",">","D","e","e","p","<","/","b",">",
      " ","l","e","a","r","n","i","n","g"," ","i","s"," ","g","r","e","a","t","."," ","I",
      "t"," ","w","o","r","k","s","!"," ","A"," ","t","r","a","i","l","i","n","g"," ","f",
      "r","a","g","m","e","n","t"," ","t","h","a","t"," ","w","a","s"," ","c","u","t">>

\* json.dumps(data) of the two bodies without generated text
JsonEmptyContent ==
    <<"{","\"","c","h","o","i","c","e","s","\"",":"," ","[","{","\"","m","e","s","s","a",
      "g","e","\"",":"," ","{","\"","c","o","n","t","e","n","t","\"",":"," ","\"","\"","}",
      "}","]","}">>

JsonNoChoices ==
    <<"{","\"","c","h","o","i","c","e","s","\"",":"," ","[","]","}">>

\* what an attempt leaves generate_with_groq to do
GroqRetry(wait) == [kind |-> "retry", wait |-> wait]
GroqReturn(text) == [kind |-> "return", text |-> text]
GroqRaise == [kind |-> "raise"]

(* core.py generate_with_groq: one request; every exception, also the
   IndexError of an empty "choices" list, gives None *)
core_generate_with_groq(outcome) ==
    IF outcome = "text" THEN GroqReturn(LlmOutput)
    ELSE IF outcome = "empty_content" THEN GroqReturn(<<>>)
    ELSE GroqReturn(NULL)

max_retries == 3

\* a wrapper that tries again after every HTTP error status
kc_generate_with_groq_any_status(attempt, outcome) ==
    IF outcome = "text" THEN GroqReturn(LlmOutput)
    ELSE IF outcome = "empty_content" THEN GroqReturn(JsonEmptyContent)
    ELSE IF outcome = "no_choices" THEN GroqReturn(JsonNoChoices)
    ELSE IF attempt < max_retries - 1 THEN GroqRetry((2 ^ attempt) * 2)
    ELSE GroqRaise

(* kc_core.py generate_with_groq, the body of `for attempt in
   range(max_retries)` for one attempt and what follows the loop: HTTP 429
   sleeps and tries again, any other HTTP status raises, any other exception
   sleeps and tries again; the last attempt raises; a body without generated
   text is returned as json.dumps(data) *)
kc_generate_with_groq(attempt, outcome) ==
    IF outcome = "text" THEN GroqReturn(LlmOutput)
    ELSE IF outcome = "empty_content" THEN GroqReturn(JsonEmptyContent)
    ELSE IF outcome = "no_choices" THEN GroqReturn(JsonNoChoices)
    ELSE IF outcome = "rate_limited"
        THEN IF attempt < max_retries - 1 THEN GroqRetry((2 ^ attempt) * 2)
             ELSE GroqRaise
    ELSE IF outcome = "http_error" THEN GroqRaise
    ELSE IF attempt < max_retries - 1 THEN GroqRetry((2 ^ attempt) * 2)
    ELSE GroqRaise

GroqAttempt(v, attempt, outcome) ==
    IF v = "core" THEN core_generate_with_groq(outcome)
    ELSE kc_generate_with_groq(attempt, outcome)

\* the sentinels of generate_paper_summary
NotEnoughContent ==
    <<"N","o","t"," ","e","n","o","u","g","h"," ","c","o","n","t","e","n","t"," ","a","v",
      "a","i","l","a","b","l","e"," ","t","o"," ","g","e","n","e","r","a","t","e"," ","a",
      " ","s","u","m","m","a","r","y",".">>

NoContentAvailable ==
    <<"N","o"," ","c","o","n","t","e","n","t"," ","a","v","a","i","l","a","b","l","e"," ",
      "f","o","r"," ","s","u","m","m","a","r","i","z","a","t","i","o","n",".">>

MinContentLen == 100
SubstantiveLen == 1000
ExcerptLen == 600

\* summary and summary.strip()
HasText(summary) == Truthy(summary) /\ ~IsBlank(summary)

(* core.py generate_paper_summary: paper.get("full_content") or paper.get("abstract") *)
core_paper_content(paper) ==
    IF Truthy(paper.full_content) THEN paper.full_content ELSE paper.abstract

(* kc_core.py generate_paper_summary: the content, sanitized *)
kc_paper_content(paper) ==
    sanitize_text(IF Truthy(paper.full_content) THEN paper.full_content ELSE paper.abstract)

PaperContent(v, paper) ==
    IF v = "core" THEN core_paper_content(paper) ELSE kc_paper_content(paper)

\* a length check that lets every non-empty content through
TooShortOnlyEmpty(v, paper) == ~Truthy(PaperContent(v, paper))

\* generate_paper_summary returns its sentinel
TooShort(v, paper) ==
    ~Truthy(PaperContent(v, paper)) \/ Len(PaperContent(v, paper)) < MinContentLen

(* kc_core.py generate_paper_summary:
   if paper.get("has_fulltext") and len(content) > 1000 *)
kc_uses_llm(paper) ==
    paper.has_fulltext /\ Len(kc_paper_content(paper)) > SubstantiveLen

\* generate_paper_summary goes on to the LLM; core.py does for every paper
\* that passed the length check
UsesLlm(v, paper) == IF v = "core" THEN TRUE ELSE kc_uses_llm(paper)

Sentinel(v) == IF v = "core" THEN NotEnoughContent ELSE NoContentAvailable

(* core.py generate_paper_summary, after generate_with_groq has returned *)
core_paper_summary(content, groq) ==
    IF HasText(groq.text) THEN trim_to_last_sentence(sanitize_text(groq.text))
    ELSE IF Len(content) > ExcerptLen
        THEN trim_to_last_sentence(Prefix(content, ExcerptLen)) \o Ellipsis
    ELSE content

(* kc_core.py generate_paper_summary, after generate_with_groq has returned
   or raised *)
kc_paper_summary(content, groq) ==
    IF groq.kind = "return" /\ HasText(groq.text)
        THEN kc_trim_to_last_sentence(sanitize_text(RemoveSummaryHeading(Strip(groq.text))))
    ELSE LET excerpt == kc_trim_to_last_sentence(Prefix(content, ExcerptLen))
         IN  excerpt \o (IF Len(content) > Len(excerpt) THEN Ellipsis ELSE <<>>)

PaperSummary(v, content, groq) ==
    IF v = "core" THEN core_paper_summary(content, groq)
    ELSE kc_paper_summary(content, groq)

\* a text of n characters: sentences of two words, over and over
ProsePattern == <<"a", "b", " ", "c", "d", "e", "f", "g", "h", ".">>

Prose(n) == Text([i \in 1..n |-> ProsePattern[((i - 1) % Len(ProsePattern)) + 1]])

\* the lengths on both sides of 100, 600 and 1000 characters
AbstractLens == {0, MinContentLen - 1, MinContentLen}
PdfLens == {ExcerptLen, ExcerptLen + 1, SubstantiveLen, SubstantiveLen + 1}
S2AbstractLen == 150

\* what Unpaywall and Semantic Scholar answer for the paper
SumUnpaywall == {"timeout", "ok"}
SumS2 == {"timeout", "empty_results", "no_content", "ok", "ok_tldr"}

\* the four fetcher results of the paper of sum_in
SumResults(v, in) ==
    [f \in Fetchers |->
        CASE f = "unpaywall" ->
                 IF v = "core" THEN fetch_unpaywall_text(in.paper.doi, in.unpaywall, "ok", in.pdf)
                 ELSE fetch_unpaywall(in.paper.doi, in.unpaywall, "ok", in.pdf)
          [] f = "semantic_scholar" ->
                 IF v = "core"
                     THEN fetch_semantic_scholar_data(in.s2, Prose(S2AbstractLen), S2Tldr)
                 ELSE fetch_semantic_data(in.s2, Prose(S2AbstractLen), S2Tldr)
          [] f = "crossref" ->
                 IF v = "core" THEN fetch_crossref_data(in.paper.doi, "non_200", <<>>)
                 ELSE kc_fetch_crossref_data(in.paper.doi, "non_200", <<>>)
          [] f = "arxiv" -> Fetch(v, "arxiv", in.paper.arxiv_id, "ok", "ok")]

SumInputs ==
    {[paper |-> [abstract |-> Prose(a), doi |-> doi, arxiv_id |-> FALSE],
      unpaywall |-> u, pdf |-> Prose(n), s2 |-> s2] :
        a \in AbstractLens, doi \in BOOLEAN, u \in SumUnpaywall, n \in PdfLens, s2 \in SumS2}

\* a paper without DOI has no PDF to speak of
SumInput(in) == in.paper.doi \/ (in.unpaywall = "timeout" /\ in.pdf = Prose(ExcerptLen))

notSumVars == <<text1, text2, threshold, dup_result, ipc, content_list, unique_content,
                second_pass, dpc, fetchVars, enrichVars, cacheVars, byidVars, authorVars,
                pureVars, batchVars>>

SumInit ==
    /\ impl \in {"core", "kc"}
    /\ sum_in \in {in \in SumInputs : SumInput(in)}
    /\ sum_paper = Pending
    /\ llm_key \in BOOLEAN
    /\ llm_attempts = <<>>
    /\ llm_waits = <<>>
    /\ llm_calls = 0
    /\ summary_out = <<>>
    /\ spc = "input"
    /\ DedupIdle /\ IsDupIdle /\ FetchIdle /\ EnrichIdle /\ CacheIdle /\ ByIdIdle /\ AuthorIdle
    /\ PureIdle /\ BatchIdle

(* the enrichment of the paper: enrich_paper_with_full_text, or
   enrich_papers_with_content on the one paper *)
SumEnrich ==
    /\ spc = "input"
    /\ LET res == SumResults(impl, sum_in)
           raised == \E f \in Fetchers : res[f].kind = "raise"
           e == IF impl = "core" THEN enrich_paper_with_full_text(sum_in.paper, res)
                ELSE kc_enrich_paper(sum_in.paper, res)
       IN  IF impl = "core" /\ raised
               THEN /\ sum_paper' = [kind |-> "raised"]
                    /\ spc' = "error"
           ELSE /\ sum_paper' = [kind |-> "done",
                                 abstract |-> sum_in.paper.abstract,
                                 full_content |-> e.full_content,
                                 has_fulltext |-> IF impl = "core" THEN FALSE
                                                  ELSE e.has_fulltext]
                /\ spc' = "enriched"
    /\ UNCHANGED <<impl, sum_in, llm_key, llm_attempts, llm_waits, llm_calls, summary_out>>
    /\ UNCHANGED notSumVars

(* generate_paper_summary up to its first return or to the request that
   generate_with_groq sends; without API key the wrapper sends none *)
SumStart ==
    /\ spc = "enriched"
    /\ LET content == PaperContent(impl, sum_paper)
       IN  IF TooShort(impl, sum_paper)
               THEN /\ summary_out' = Sentinel(impl)
                    /\ spc' = "done"
                    /\ UNCHANGED llm_calls
           ELSE IF ~UsesLlm(impl, sum_paper)
               THEN /\ summary_out' = sanitize_text(content)
                    /\ spc' = "done"
                    /\ UNCHANGED llm_calls
           ELSE IF ~llm_key
               THEN /\ summary_out' = PaperSummary(impl, content,
                                          IF impl = "core" THEN GroqReturn(NULL) ELSE GroqRaise)
                    /\ spc' = "done"
                    /\ llm_calls' = llm_calls + 1
           ELSE /\ spc' = "calling"
                /\ llm_calls' = llm_calls + 1
                /\ UNCHANGED summary_out
    /\ UNCHANGED <<impl, sum_in, sum_paper, llm_key, llm_attempts, llm_waits>>
    /\ UNCHANGED notSumVars

(* one request of generate_with_groq and what follows it: the sleep before
   the next attempt, or the rest of generate_paper_summary *)
LlmAttempt ==
    /\ spc = "calling"
    /\ \E outcome \in LlmOutcomes :
         LET groq == GroqAttempt(impl, Len(llm_attempts), outcome)
         IN  /\ llm_attempts' = Append(llm_attempts, outcome)
             /\ IF groq.kind = "retry"
                    THEN /\ llm_waits' = Append(llm_waits, groq.wait)
                         /\ UNCHANGED <<summary_out, spc>>
                ELSE /\ summary_out' = PaperSummary(impl, PaperContent(impl, sum_paper), groq)
                     /\ spc' = "done"
                     /\ UNCHANGED llm_waits
    /\ UNCHANGED <<impl, sum_in, sum_paper, llm_key, llm_calls>>
    /\ UNCHANGED notSumVars

SumNext == SumEnrich \/ SumStart \/ LlmAttempt

SpecSummarize == SumInit /\ [][SumNext]_vars

----------------------------------------------------------------------------
(* C13 as stated: a paper with no DOI, no arXiv ID and an empty abstract is
   enriched without raising to an empty merged content that is not
   substantive, and its summary is the sentinel with no LLM call; and every
   content shorter than 100 characters gives the sentinel with no LLM call *)
BareInput == sum_in.paper.abstract = <<>> /\ ~sum_in.paper.doi /\ ~sum_in.paper.arxiv_id

\* the merged content, or the raw abstract when there is none
MergedOrAbstract ==
    IF Truthy(sum_paper.full_content) THEN sum_paper.full_content ELSE sum_paper.abstract

SentinelWithoutLlm ==
    /\ summary_out = Sentinel(impl)
    /\ llm_calls = 0
    /\ llm_attempts = <<>>

ShortContentGivesSentinel ==
    (spc \in {"calling", "done"} /\ Len(MergedOrAbstract) < MinContentLen) =>
        (spc = "done" /\ SentinelWithoutLlm)

TitleLookupGaveNothing ==
    LET r == SumResults(impl, sum_in)["semantic_scholar"]
    IN  r.kind # "raise" /\ ~HasAbstract(r) /\ ~HasTldr(r)

Substantive ==
    /\ impl = "kc" => sum_paper.has_fulltext
    /\ Len(PaperContent(impl, sum_paper)) > SubstantiveLen

C14_LlmOnlyForSubstantiveContent ==
    (spc \in {"calling", "done"}) =>
        /\ llm_calls > 0 => Substantive
        /\ (spc = "done" /\ ~TooShort(impl, sum_paper) /\ ~Substantive) =>
               /\ llm_calls = 0
               /\ summary_out = sanitize_text(PaperContent(impl, sum_paper))

\* a paper of 100 to 1000 characters of content was summarized
C14_ContentBelowSubstantive ==
    /\ spc = "done"
    /\ ~TooShort(impl, sum_paper)
    /\ Len(PaperContent(impl, sum_paper)) <= SubstantiveLen
    /\ llm_calls = 0

----------------------------------------------------------------------------
(* Author summaries: rule_based_summary, the selection of the papers for the
   prompt, and generate_author_summary around the LLM wrapper. *)

Letters == {Alphabet[i] : i \in 1..Len(Alphabet)}

DigitChars == <<"0", "1", "2", "3", "4", "5", "6", "7", "8", "9">>

\* \w of the regular expressions, on lowercased text
IsWordChar(c) == c \in Letters \/ c = "_" \/ \E d \in 1..Len(DigitChars) : DigitChars[d] = c

\* str(n) of a natural number
RECURSIVE Digits(_)
Digits(n) ==
    IF n < 10 THEN <<DigitChars[n + 1]>>
    ELSE Digits(n \div 10) \o <<DigitChars[(n % 10) + 1]>>

MinWordLen == 5

(* re.findall(r"\b[a-zA-Z]{5,}\b", text) on text[lo..hi], where lo and hi are
   ends of the text or next to a non-word character: the runs of word
   characters that are letters only and at least five long. The text is cut
   at a non-word character near its middle, so that long texts stay shallow. *)
RECURSIVE WordsBetween(_, _, _)
WordsBetween(text, lo, hi) ==
    IF lo > hi THEN <<>>
    ELSE IF \A j \in lo..hi : IsWordChar(text[j])
        THEN IF hi - lo + 1 >= MinWordLen /\ \A j \in lo..hi : text[j] \in Letters
                 THEN <<SubSeq(text, lo, hi)>>
             ELSE <<>>
    ELSE LET mid == (lo + hi) \div 2
             cut == IF \E j \in mid..hi : ~IsWordChar(text[j])
                        THEN CHOOSE j \in mid..hi :
                                 ~IsWordChar(text[j]) /\ \A k \in mid..(j - 1) : IsWordChar(text[k])
                    ELSE CHOOSE j \in lo..(mid - 1) :
                             ~IsWordChar(text[j]) /\ \A k \in (j + 1)..(mid - 1) : IsWordChar(text[k])
         IN  WordsBetween(text, lo, cut - 1) \o WordsBetween(text, cut + 1, hi)

LongWords(text) == WordsBetween(LowerText(text), 1, Len(text))

\* sorted(seq, key=Key, reverse=True): descending, equal keys in their old order
SortedDesc(seq, Key(_)) ==
    LET n == Len(seq)
        Before(i, j) == Key(seq[i]) > Key(seq[j]) \/ (Key(seq[i]) = Key(seq[j]) /\ i < j)
        Pos(i) == Cardinality({j \in 1..n : Before(j, i)}) + 1
    IN  Text([k \in 1..n |-> seq[CHOOSE i \in 1..n : Pos(i) = k]])

\* the keys of Counter(seq), in the order of their first occurrence
Distinct(seq) ==
    LET First(i) == \A k \in 1..(i - 1) : seq[k] # seq[i]
        firsts == {i \in 1..Len(seq) : First(i)}
        Nth(k) == CHOOSE i \in firsts : Cardinality({j \in firsts : j < i}) = k - 1
    IN  Text([k \in 1..Cardinality(firsts) |-> seq[Nth(k)]])

\* Counter(seq).most_common(n), the words without their counts
most_common(seq, n) ==
    LET Count(w) == Cardinality({i \in 1..Len(seq) : seq[i] = w})
    IN  Prefix(SortedDesc(Distinct(seq), Count), n)

CoreStopwords ==
    {<<"b","a","s","e","d">>, <<"u","s","i","n","g">>, <<"p","a","p","e","r">>,
     <<"a","p","p","r","o","a","c","h">>, <<"m","e","t","h","o","d">>,
     <<"s","y","s","t","e","m">>, <<"r","e","s","e","a","r","c","h">>, <<"s","t","u","d","y">>,
     <<"r","e","s","u","l","t","s">>, <<"p","r","o","p","o","s","e">>,
     <<"p","r","e","s","e","n","t">>, <<"p","r","o","v","i","d","e">>, <<"m","o","d","e","l">>,
     <<"m","o","d","e","l","s">>}

KcStopwords ==
    {<<"b","a","s","e","d">>, <<"u","s","i","n","g">>, <<"p","a","p","e","r">>,
     <<"a","p","p","r","o","a","c","h">>, <<"m","e","t","h","o","d">>,
     <<"s","y","s","t","e","m">>, <<"s","y","s","t","e","m","s">>,
     <<"r","e","s","e","a","r","c","h">>, <<"s","t","u","d","y">>,
     <<"r","e","s","u","l","t","s">>, <<"p","r","o","p","o","s","e","d">>,
     <<"p","r","e","s","e","n","t">>, <<"p","r","o","v","i","d","e">>}

MaxKeywords == 10
KcCommonWords == 20

\* p.get("full_content", p.get("abstract", "")); enriched says that the paper
\* has the key "full_content"
core_paper_text(p) == IF p.enriched THEN p.full_content ELSE p.abstract

\* p.get("full_content", "")
kc_paper_text(p) == IF p.enriched THEN p.full_content ELSE <<>>

\* sum(p.get("cited_by_count", 0) for p in papers)
RECURSIVE total_citations(_)
total_citations(ps) ==
    IF ps = <<>> THEN 0 ELSE ps[1].cited_by_count + total_citations(Tail(ps))

NoPapersHead ==
    <<"N","o"," ","p","a","p","e","r","s"," ","w","e","r","e"," ","a","v","a","i","l","a",
      "b","l","e"," ","t","o"," ","g","e","n","e","r","a","t","e"," ","a"," ","s","u","m",
      "m","a","r","y"," ","f","o","r"," ">>

(* core.py rule_based_summary *)
core_rule_based_summary(author_name, ps) ==
    IF ps = <<>> THEN NoPapersHead \o author_name \o <<".">>
    ELSE LET all_text == JoinWith(Text([i \in 1..Len(ps) |-> core_paper_text(ps[i])]), <<" ">>)
             words == SelectSeq(LongWords(all_text), LAMBDA w : w \notin CoreStopwords)
             keywords == most_common(words, MaxKeywords)
             CoreRuleHead ==
                 <<"A"," ","r","u","l","e","-","b","a","s","e","d"," ","a","n","a","l","y","s","i","s",
                   " ","o","f"," ","t","h","e"," ","w","o","r","k"," ","b","y"," ">>
             CoreRuleAcross ==
                 <<" ","i","n","d","i","c","a","t","e","s"," ","a"," ","f","o","c","u","s"," ","o","n",
                   " ","s","e","v","e","r","a","l"," ","k","e","y"," ","a","r","e","a","s","."," ","A",
                   "c","r","o","s","s"," ">>
             CoreRulePublications ==
                 <<" ","a","n","a","l","y","z","e","d"," ","p","u","b","l","i","c","a","t","i","o","n",
                   "s",","," ","w","h","i","c","h"," ","h","a","v","e"," ","c","o","l","l","e","c","t",
                   "i","v","e","l","y"," ","r","e","c","e","i","v","e","d"," ">>
             CoreRuleKeywords ==
                 <<" ","c","i","t","a","t","i","o","n","s",","," ","p","r","o","m","i","n","e","n","t",
                   " ","k","e","y","w","o","r","d","s"," ","i","n","c","l","u","d","e",":"," ">>
             CoreRuleTail ==
                 <<"."," ","T","h","i","s"," ","s","u","g","g","e","s","t","s"," ","a"," ","s","t","r",
                   "o","n","g"," ","c","o","n","c","e","n","t","r","a","t","i","o","n"," ","i","n"," ",
                   "t","h","e","s","e"," ","d","o","m","a","i","n","s",".">>
         IN  CoreRuleHead \o author_name \o CoreRuleAcross \o Digits(Len(ps))
                 \o CoreRulePublications \o Digits(total_citations(ps))
                 \o CoreRuleKeywords \o JoinWith(keywords, <<",", " ">>) \o CoreRuleTail

(* kc_core.py rule_based_summary: no sentence of its own for an empty list *)
kc_rule_based_summary(author_name, ps) ==
    LET all_text == JoinWith(Text([i \in 1..Len(ps) |-> kc_paper_text(ps[i])]), <<" ">>)
        common == most_common(LongWords(all_text), KcCommonWords)
        keywords == Prefix(SelectSeq(common, LAMBDA w : w \notin KcStopwords), MaxKeywords)
        KcRulePublished ==
            <<" ","h","a","s"," ","p","u","b","l","i","s","h","e","d"," ">>
        KcRuleAreas ==
            <<" ","p","a","p","e","r","s","."," ","M","a","i","n"," ","r","e","s","e","a","r","c",
              "h"," ","a","r","e","a","s"," ","i","n","c","l","u","d","e",":"," ">>
        KcRuleReceived ==
            <<"."," ","T","h","e","s","e"," ","p","a","p","e","r","s"," ","h","a","v","e"," ","r",
              "e","c","e","i","v","e","d"," ">>
        KcRuleTail ==
            <<" ","c","i","t","a","t","i","o","n","s"," ","i","n"," ","t","o","t","a","l",".">>
    IN  author_name \o KcRulePublished \o Digits(Len(ps)) \o KcRuleAreas
            \o JoinWith(keywords, <<",", " ">>) \o KcRuleReceived
            \o Digits(total_citations(ps)) \o KcRuleTail

rule_based_summary(v, author_name, ps) ==
    IF v = "core" THEN core_rule_based_summary(author_name, ps)
    ELSE kc_rule_based_summary(author_name, ps)

\* the author and the contents of the papers
AuthorName ==
    <<"A","d","a"," ","L","o","v","e","l","a","c","e">>

ContentA ==
    <<"D","e","e","p"," ","l","e","a","r","n","i","n","g"," ","m","o","d","e","l","s"," ",
      "f","o","r"," ","g","r","a","p","h","2","v","e","c"," ","l","e","a","r","n","i","n",
      "g",";"," ","g","r","a","p","h","_","b","a","s","e","d"," ","s","y","s","t","e","m",
      "s",".">>

ContentB ==
    <<"Q","u","a","n","t","u","m"," ","s","y","s","t","e","m","s"," ","r","e","s","e","a",
      "r","c","h",":"," ","u","s","i","n","g"," ","q","u","a","n","t","u","m"," ","l","e",
      "a","r","n","i","n","g"," ","m","e","t","h","o","d","s">>

MaxPapers == 25

(* how citation counts and years lie over the list: "ranked" is OpenAlex's
   order (most cited first) with the years scattered, "aligned" has the most
   cited papers also the most recent, "ties" has equal counts and equal
   years, "flat" has no citations, no year and no merged content *)
PaperPatterns == {"ranked", "aligned", "ties", "flat"}

AuthorPaper(i, n, pat) ==
    [id |-> i,
     cited_by_count |-> CASE pat = "ranked" -> 3 * (n - i)
                          [] pat = "aligned" -> n - i
                          [] pat = "ties" -> i % 4
                          [] pat = "flat" -> 0,
     year |-> CASE pat = "ranked" -> 2000 + ((i * 7) % 11)
                [] pat = "aligned" -> 2030 - i
                [] pat = "ties" -> 2020 + (i % 3)
                [] pat = "flat" -> 0,
     enriched |-> pat # "flat",
     full_content |-> IF pat = "flat" THEN <<>>
                      ELSE IF i % 3 = 1 THEN ContentA
                      ELSE IF i % 3 = 2 THEN ContentB
                      ELSE <<>>,
     abstract |-> IF i % 2 = 1 THEN ContentB ELSE <<>>]

AuthorPapers(n, pat) == Text([i \in 1..n |-> AuthorPaper(i, n, pat)])

SampleCap == 20
MinCited == 5
CitedPercent == 60

Min(a, b) == IF a <= b THEN a ELSE b
Max(a, b) == IF a >= b THEN a ELSE b

\* a share of the sample that is rounded to the nearest paper
num_cited_rounded(sample_size) ==
    Min(Max(MinCited, (sample_size * CitedPercent + 50) \div 100), sample_size)

(* generate_author_summary: min(max(5, int(sample_size * 0.6)), sample_size)
   in core.py, min(max(5, sample_size * 60 // 100), sample_size) in kc_core.py *)
num_cited(sample_size) ==
    Min(Max(MinCited, (sample_size * CitedPercent) \div 100), sample_size)

\* sorted(papers, key=lambda p: p.get("cited_by_count", 0), reverse=True)
cited_sorted(ps) == SortedDesc(ps, LAMBDA p : p.cited_by_count)

\* sorted(papers, key=lambda p: p.get("year") or 0, reverse=True); a paper
\* without year has year 0
recent_sorted(ps) == SortedDesc(ps, LAMBDA p : p.year)

(* the two loops of generate_author_summary over a sorted list: papers are
   appended until the sample has `limit` papers; with skip_seen a paper that
   is already in the sample is passed over (seen_ids in core.py, `p in
   selected` in kc_core.py) *)
RECURSIVE SelectLoop(_, _, _, _, _)
SelectLoop(sorted, i, selected, limit, skip_seen) ==
    IF i > Len(sorted) \/ Len(selected) >= limit THEN selected
    ELSE IF skip_seen /\ \E k \in 1..Len(selected) : selected[k].id = sorted[i].id
        THEN SelectLoop(sorted, i + 1, selected, limit, skip_seen)
    ELSE SelectLoop(sorted, i + 1, Append(selected, sorted[i]), limit, skip_seen)

(* generate_author_summary, the selection of the papers for the prompt: the
   most cited first, then the most recent; core.py skips seen ids in both
   loops, kc_core.py in the second *)
selected_papers(v, ps) ==
    LET sample_size == Min(SampleCap, Len(ps))
        top == SelectLoop(cited_sorted(ps), 1, <<>>, num_cited(sample_size), v = "core")
    IN  SelectLoop(recent_sorted(ps), 1, top, sample_size, TRUE)

Ids(ps) == Text([i \in 1..Len(ps) |-> ps[i].id])

(* core.py generate_author_summary, after generate_with_groq has returned *)
core_author_summary(author_name, ps, groq) ==
    IF HasText(groq.text) THEN sanitize_text(groq.text)
    ELSE core_rule_based_summary(author_name, ps)

(* kc_core.py generate_author_summary, after generate_with_groq has returned
   or raised *)
kc_author_summary(author_name, ps, groq) ==
    IF groq.kind = "return" /\ HasText(groq.text) THEN Strip(groq.text)
    ELSE kc_rule_based_summary(author_name, ps)

AuthorSummary(v, author_name, ps, groq) ==
    IF v = "core" THEN core_author_summary(author_name, ps, groq)
    ELSE kc_author_summary(author_name, ps, groq)

\* generate_with_groq without GROQ_API_KEY: None in core.py, RuntimeError in kc_core.py
GroqNoKey(v) == IF v = "core" THEN GroqReturn(NULL) ELSE GroqRaise

AuthorInputs ==
    {[name |-> AuthorName, papers |-> AuthorPapers(n, pat)] :
        n \in 0..MaxPapers, pat \in PaperPatterns}

notAuthorVars == <<text1, text2, threshold, dup_result, ipc, content_list, unique_content,
                   second_pass, dpc, fetchVars, enrichVars, cacheVars, byidVars,
                   sum_in, sum_paper, summary_out, spc, pureVars, batchVars>>

AuthorInit ==
    /\ impl \in {"core", "kc"}
    /\ au_in \in AuthorInputs
    /\ au_sample = <<>>
    /\ au_out = <<>>
    /\ apc = "input"
    /\ llm_key \in BOOLEAN
    /\ llm_attempts = <<>>
    /\ llm_waits = <<>>
    /\ llm_calls = 0
    /\ sum_in = <<>>
    /\ sum_paper = <<>>
    /\ summary_out = <<>>
    /\ spc = "idle"
    /\ DedupIdle /\ IsDupIdle /\ FetchIdle /\ EnrichIdle /\ CacheIdle /\ ByIdIdle /\ PureIdle /\ BatchIdle

(* generate_author_summary up to its first return or to the request that
   generate_with_groq sends: core.py returns the rule-based summary of an
   empty list at once; without API key the wrapper sends no request *)
AuthorStart ==
    /\ apc = "input"
    /\ IF impl = "core" /\ au_in.papers = <<>>
           THEN /\ au_out' = core_rule_based_summary(au_in.name, au_in.papers)
                /\ apc' = "done"
                /\ UNCHANGED <<au_sample, llm_calls>>
       ELSE /\ au_sample' = Ids(selected_papers(impl, au_in.papers))
            /\ llm_calls' = llm_calls + 1
            /\ IF ~llm_key
                   THEN /\ au_out' = AuthorSummary(impl, au_in.name, au_in.papers, GroqNoKey(impl))
                        /\ apc' = "done"
               ELSE /\ apc' = "calling"
                    /\ UNCHANGED au_out
    /\ UNCHANGED <<impl, au_in, llm_key, llm_attempts, llm_waits>>
    /\ UNCHANGED notAuthorVars

(* one request of generate_with_groq and what follows it: the sleep before
   the next attempt, or the rest of generate_author_summary *)
AuthorLlmAttempt ==
    /\ apc = "calling"
    /\ \E outcome \in LlmOutcomes :
         LET groq == GroqAttempt(impl, Len(llm_attempts), outcome)
         IN  /\ llm_attempts' = Append(llm_attempts, outcome)
             /\ IF groq.kind = "retry"
                    THEN /\ llm_waits' = Append(llm_waits, groq.wait)
                         /\ UNCHANGED <<au_out, apc>>
                ELSE /\ au_out' = AuthorSummary(impl, au_in.name, au_in.papers, groq)
                     /\ apc' = "done"
                     /\ UNCHANGED llm_waits
    /\ UNCHANGED <<impl, au_in, au_sample, llm_key, llm_calls>>
    /\ UNCHANGED notAuthorVars

AuthorNext == AuthorStart \/ AuthorLlmAttempt

SpecAuthor == AuthorInit /\ [][AuthorNext]_vars

----------------------------------------------------------------------------
(* C15: whenever the LLM call fails, stays rate-limited or succeeds with a
   response that carries no generated text, the author summary is the
   rule-based summary of the papers and the paper summary is the truncated,
   sentence-trimmed excerpt of the content *)
\* the call that was made ended without generated text
LlmGaveNoText ==
    /\ llm_calls > 0
    /\ \/ ~llm_key
       \/ llm_attempts # <<>> /\ llm_attempts[Len(llm_attempts)] # "text"

\* the excerpt of the content: its first 600 characters cut at the last
\* sentence end, with or without the ellipsis, or a content of up to 600
\* characters whole
IsExcerpt(out, content) ==
    LET trimmed == Trim(impl, Prefix(content, ExcerptLen))
    IN  \/ out = trimmed
        \/ out = trimmed \o Ellipsis
        \/ Len(content) <= ExcerptLen /\ out = content

C15_FallbackWhenLlmGivesNoText ==
    /\ (spc = "done" /\ LlmGaveNoText) =>
           IsExcerpt(summary_out, PaperContent(impl, sum_paper))
    /\ (apc = "done" /\ LlmGaveNoText) =>
           au_out = rule_based_summary(impl, au_in.name, au_in.papers)

\* a paper summary whose LLM call was rate-limited on every attempt of the
\* budget, or failed, and that is the excerpt
C15_LlmFailedPaperSummary ==
    /\ spc = "done"
    /\ llm_attempts # <<>>
    /\ llm_attempts[Len(llm_attempts)] \in LlmFailures
    /\ IsExcerpt(summary_out, PaperContent(impl, sum_paper))

(* C16: when the LLM call of a paper summary is answered with HTTP 429 on the
   first attempt, a retry follows, and when a retry within the attempt budget
   succeeds the summary is the sanitized, sentence-trimmed LLM output, not
   the excerpt of the content *)
FirstAttemptRateLimited == llm_attempts # <<>> /\ llm_attempts[1] = "rate_limited"

RetrySucceeded ==
    /\ Len(llm_attempts) > 1
    /\ Len(llm_attempts) <= max_retries
    /\ llm_attempts[Len(llm_attempts)] = "text"

\* the LLM output sanitized and cut at its last sentence end, with or without
\* its "Summary:" heading
IsLlmSummary(out) ==
    \/ out = Trim(impl, sanitize_text(LlmOutput))
    \/ out = Trim(impl, sanitize_text(RemoveSummaryHeading(Strip(LlmOutput))))

C16_RetryAfterRateLimitGivesLlmOutput ==
    (spc = "done" /\ FirstAttemptRateLimited) =>
        /\ Len(llm_attempts) > 1
        /\ RetrySucceeded =>
               /\ IsLlmSummary(summary_out)
               /\ ~IsExcerpt(summary_out, PaperContent(impl, sum_paper))

\* a paper summary whose first attempt was rate-limited and whose retry gave text
C16_RetrySucceeded ==
    /\ spc = "done"
    /\ FirstAttemptRateLimited
    /\ RetrySucceeded
    /\ IsLlmSummary(summary_out)

----------------------------------------------------------------------------
(* C17 as stated: the sample for the author prompt has min(20, n) papers,
   none twice; the first max(5, round(0.6 * min(20, n))) of them, capped at
   the sample size, are the most cited papers in stable descending order of
   citation count, the rest the most recent papers not yet selected in stable
   descending order of year; 25 papers give 12 by citations and 8 by recency *)
\* the i-th paper of the sample
Sampled(i) == au_in.papers[au_sample[i]]

\* p comes before q in the stable descending order; the id of a paper is its
\* place in the list
CitedBefore(p, q) ==
    p.cited_by_count > q.cited_by_count \/ (p.cited_by_count = q.cited_by_count /\ p.id < q.id)

RecentBefore(p, q) == p.year > q.year \/ (p.year = q.year /\ p.id < q.id)

SampleSize == Min(SampleCap, Len(au_in.papers))

\* the sample is drawn: its first k papers by citations, the rest by recency
SampleIs(k) ==
    LET n == Len(au_in.papers)
        top == {au_sample[i] : i \in 1..Min(k, Len(au_sample))}
        all == {au_sample[i] : i \in 1..Len(au_sample)}
    IN  /\ Len(au_sample) = SampleSize
        /\ \A i, j \in 1..Len(au_sample) : i # j => au_sample[i] # au_sample[j]
        /\ \A i \in 1..(k - 1) : CitedBefore(Sampled(i), Sampled(i + 1))
        /\ \A i \in 1..k : \A q \in (1..n) \ top : CitedBefore(Sampled(i), au_in.papers[q])
        /\ \A i \in (k + 1)..(SampleSize - 1) : RecentBefore(Sampled(i), Sampled(i + 1))
        /\ \A i \in (k + 1)..SampleSize : \A q \in (1..n) \ all :
               RecentBefore(Sampled(i), au_in.papers[q])

SampleDrawn == apc \in {"calling", "done"} /\ ~(impl = "core" /\ au_in.papers = <<>>)

ScenarioD ==
    Len(au_in.papers) = 25 =>
        /\ Len(au_sample) = 20
        /\ SampleIs(12)

C17_SampleByRoundedShare ==
    SampleDrawn =>
        /\ SampleIs(Min(Max(MinCited, (SampleSize * 6 + 5) \div 10), SampleSize))
        /\ ScenarioD

(* C17 as the code has it: the share of the most cited papers is rounded down,
   max(5, floor(0.6 * min(20, n))) *)
C17_SampleByFlooredShare ==
    SampleDrawn =>
        /\ SampleIs(Min(Max(MinCited, (SampleSize * 6) \div 10), SampleSize))
        /\ ScenarioD

\* eleven papers whose most recent are not the most cited: six by citations,
\* five by recency
C17_Witness ==
    /\ SampleDrawn
    /\ Len(au_in.papers) = 11
    /\ Len(au_sample) = 11
    /\ \E q \in 8..11 : CitedBefore(Sampled(q), Sampled(7))

----------------------------------------------------------------------------
(* C18: rule_based_summary gives a non-empty, well-formed text for every
   non-empty paper list and the fixed "no papers" sentence for the empty
   list, and the same author name and papers always give the same text *)
\* a text that names the author and the number of papers and ends a sentence
WellFormed(out) ==
    /\ out # <<>>
    /\ ~IsBlank(out)
    /\ out[Len(out)] = "."
    /\ Contains(au_in.name, out)
    /\ Contains(Digits(Len(au_in.papers)), out)

\* generate_author_summary fell back: no papers, no API key, or a call that failed
FellBack ==
    /\ apc = "done"
    /\ \/ llm_calls = 0
       \/ ~llm_key
       \/ llm_attempts # <<>> /\ llm_attempts[Len(llm_attempts)] \in LlmFailures

C18_RuleBasedSummary ==
    LET out == rule_based_summary(impl, au_in.name, au_in.papers)
    IN  FellBack =>
            /\ au_out = out
            /\ au_in.papers # <<>> => WellFormed(au_out)
            /\ au_in.papers = <<>> => au_out = NoPapersHead \o au_in.name \o <<".">>

\* the rule-based summary of a non-empty list was returned
C18_FellBackOnPapers ==
    /\ FellBack
    /\ au_in.papers # <<>>
    /\ WellFormed(au_out)

----------------------------------------------------------------------------
(* C19: when the upstream has no author or paper for the requested id, the
   endpoint answers HTTP 404, makes the lookup once, and neither enriches,
   summarizes nor writes to the cache for that request *)
NotFoundRequests == {r \in DOMAIN rq : rq[r].outcome = "not_found"}

NothingElseDone(r) ==
    /\ rq[r].lookups = 1
    /\ rq[r].enrichments = 0
    /\ rq[r].summaries = 0
    /\ rq[r].tasks = 0
    /\ \A i \in 1..Len(write_log) : write_log[i].writer # r

C19_NotFoundIs404 ==
    \A r \in NotFoundRequests :
        /\ rq[r].status = 404
        /\ NothingElseDone(r)

\* a request whose id the upstream does not know was answered, after one
\* lookup and nothing else
C19_NotFoundAnswered ==
    \E r \in NotFoundRequests :
        /\ rq[r].pc = "done"
        /\ rq[r].status # NoNumber
        /\ NothingElseDone(r)

----------------------------------------------------------------------------
(* C20 as stated: generate_with_groq issues a further attempt only after a
   rate-limit failure (HTTP 429); after a non-429 HTTP status, a connection
   error, a timeout or an undecodable body it makes no further attempt, and
   the call gives no text *)
\* the attempts that were followed by a further attempt: all of them while
\* the wrapper is still calling, all but the last once it is done
Retried ==
    IF spc = "calling" THEN llm_attempts
    ELSE SubSeq(llm_attempts, 1, Len(llm_attempts) - 1)

RetriedOnlyAfter(kinds) == \A i \in 1..Len(Retried) : Retried[i] \in kinds

\* a call that ended in a failure gave no text: the summary is the excerpt
FailedCallIsAbsent ==
    (spc = "done" /\ llm_attempts # <<>> /\ llm_attempts[Len(llm_attempts)] \in LlmFailures) =>
        IsExcerpt(summary_out, PaperContent(impl, sum_paper))

C20_RetryOnlyAfterRateLimit ==
    /\ RetriedOnlyAfter({"rate_limited"})
    /\ FailedCallIsAbsent

(* C20 as the code has it: a further attempt follows a rate limit or a failure
   that is not an HTTP status (connection error, timeout, undecodable body);
   a non-429 HTTP status ends the call *)
C20_RetryNeverAfterHttpError ==
    /\ RetriedOnlyAfter({"rate_limited", "connection_error", "timeout", "bad_json"})
    /\ FailedCallIsAbsent

\* a timeout was followed by a further attempt, and an HTTP error status ended the call
C20_Witness ==
    /\ spc = "done"
    /\ Len(llm_attempts) = 2
    /\ llm_attempts[1] = "timeout"
    /\ llm_attempts[2] = "http_error"

----------------------------------------------------------------------------
(* C30: is_duplicate is symmetric: for all texts a and b and every threshold,
   is_duplicate(a, b) equals is_duplicate(b, a) *)
C30_IsDuplicateSymmetric ==
    ipc = "done" => dup_result = IsDup(impl, text2, text1, threshold)

\* two different texts, one of 200 characters or more that holds the other,
\* were found to be duplicates
C30_Witness ==
    /\ ipc = "done"
    /\ dup_result
    /\ normalize_text(text1) # normalize_text(text2)
    /\ Len(text1) < ShortLen
    /\ Len(text2) >= ShortLen

----------------------------------------------------------------------------
(* trim_to_last_sentence applied to the output of the language model *)

MaxFragment == 12

\* the words a token limit cuts short
Unfinished == <<" ", "a", "n", "d", " ", "t", "h", "e", "n", " ", "t", "h", "e">>

SentenceBodies ==
    { <<>>,
      <<"D", "o", "n", "e", ".">>,
      <<"I", "t", " ", "w", "o", "r", "k", "s", ".", " ", "I", "s", " ", "i", "t", " ", "s", "o", "?", " ", "Y", "e", "s", "!">> }

\* a text: optional leading whitespace, whole sentences, an unfinished fragment
TrimTexts ==
    { pad \o body \o Prefix(Unfinished, k) :
        pad \in {<<>>, <<" ">>}, body \in SentenceBodies, k \in 0..MaxFragment }

notTrimVars == <<text1, text2, threshold, dup_result, ipc, content_list, unique_content,
                 second_pass, dpc, fetchVars, enrichVars, cacheVars, byidVars, sumVars,
                 authorVars, inv_index, decoded, xpc, batchVars>>

TrimInit ==
    /\ impl \in {"core", "kc"}
    /\ trim_in \in TrimTexts
    /\ trim_out = <<>>
    /\ tpc = "input"
    /\ DecodeIdle
    /\ DedupIdle /\ IsDupIdle /\ FetchIdle /\ EnrichIdle /\ CacheIdle
    /\ ByIdIdle /\ SumIdle /\ AuthorIdle /\ BatchIdle

CallTrim ==
    /\ tpc = "input"
    /\ trim_out' = Trim(impl, trim_in)
    /\ tpc' = "done"
    /\ UNCHANGED <<impl, trim_in>>
    /\ UNCHANGED notTrimVars

TrimNext == CallTrim

SpecTrim == TrimInit /\ [][TrimNext]_vars

(* C26: trim_to_last_sentence looks for the last '.', '?' or '!'. When there
   is one within the last ten characters of the text, the result is the text
   cut immediately after it; when there is none, the result is the input,
   unchanged. *)
C26_TrimToLastSentence ==
    tpc = "done" =>
        LET last == LastPunc(trim_in)
        IN  /\ last = 0 => trim_out = trim_in
            /\ (last # 0 /\ last > Len(trim_in) - TrimSlack) =>
                   trim_out = Prefix(trim_in, last)

\* a sentence end followed by a short fragment, and the text cut after it
C26_CutAfterSentenceEnd ==
    /\ tpc = "done"
    /\ LastPunc(trim_in) # 0
    /\ LastPunc(trim_in) < Len(trim_in)
    /\ LastPunc(trim_in) > Len(trim_in) - TrimSlack
    /\ trim_out = Prefix(trim_in, LastPunc(trim_in))

EndsSentence(text) == text # <<>> /\ text[Len(text)] \in SentenceEnd

(* C27: a text whose last character is '.', '?' or '!' is returned exactly
   as it was given. *)
C27_NoOpOnFinishedText ==
    (tpc = "done" /\ EndsSentence(trim_in)) => trim_out = trim_in

(* C27, amended: a text whose last character is '.', '?' or '!' is returned
   with its leading whitespace removed and nothing else changed, so a text
   that begins with a character other than whitespace is returned exactly. *)
C27_FinishedTextOnlyStripped ==
    (tpc = "done" /\ EndsSentence(trim_in)) =>
        /\ trim_out = Strip(trim_in)
        /\ ~IsSpace(trim_in[1]) => trim_out = trim_in

\* a finished text of several sentences that came back as it was given
C27_Witness ==
    /\ tpc = "done"
    /\ EndsSentence(trim_in)
    /\ Cardinality({i \in 1..Len(trim_in) : trim_in[i] \in SentenceEnd}) > 1
    /\ trim_out = trim_in

----------------------------------------------------------------------------
(* The abstract of an OpenAlex record, decoded from abstract_inverted_index *)

\* An inverted index as the record carries it: "absent" is None or an empty
\* mapping, "list" a non-empty value that is not a mapping, "mapping" a
\* mapping of words to position lists, in the order of its items.
\* integers = FALSE marks a position list with a value that is not an integer.
IndexWords == { <<"d", "e", "e", "p">>, <<"n", "e", "t", "s">>, <<"l", "e", "a", "r", "n">> }

PositionLists == { <<>>, <<0>>, <<1>>, <<0, 2>>, <<-3>> }

IndexEntries ==
    [word : IndexWords, positions : PositionLists, integers : {TRUE}]
        \cup [word : IndexWords, positions : {<<0>>}, integers : {FALSE}]

MaxEntries == 2

InvertedIndexes ==
    {[kind |-> "absent", entries |-> <<>>], [kind |-> "list", entries |-> <<>>]}
        \cup { [kind |-> "mapping", entries |-> es] :
                  es \in { e \in UNION {[1..n -> IndexEntries] : n \in 1..MaxEntries} :
                             \A i, j \in 1..Len(e) : e[i].word = e[j].word => i = j } }

AllPositions(entries) ==
    UNION { {entries[k].positions[i] : i \in 1..Len(entries[k].positions)} :
              k \in 1..Len(entries) }

\* max(max(pos) for pos in inv_abstract.values())
max_pos(entries) ==
    CHOOSE m \in AllPositions(entries) : \A q \in AllPositions(entries) : q <= m

\* the exception the decoding raises, "none" when it raises none:
\* .values() of a value that is not a mapping, max() of an empty list,
\* max() or the multiplication on a position that is not an integer,
\* words[pos] on a position below -len(words)
decode_error(idx) ==
    IF idx.kind = "list" THEN "AttributeError"
    ELSE LET es == idx.entries
             bad == {k \in 1..Len(es) : es[k].positions = <<>> \/ ~es[k].integers}
             first == CHOOSE k \in bad : \A j \in bad : k <= j
             n == Max(0, max_pos(es) + 1)
         IN  IF bad # {}
                 THEN IF es[first].integers THEN "ValueError" ELSE "TypeError"
             ELSE IF \E q \in AllPositions(es) : q < 0 - n THEN "IndexError"
             ELSE "none"

\* for word, positions in inv_abstract.items(): for pos in positions: words[pos] = word
RECURSIVE PlaceWords(_, _, _, _)
PlaceWords(words, entries, k, i) ==
    IF k > Len(entries) THEN words
    ELSE IF i > Len(entries[k].positions) THEN PlaceWords(words, entries, k + 1, 1)
    ELSE LET pos == entries[k].positions[i]
             at == IF pos >= 0 THEN pos + 1 ELSE Len(words) + pos + 1
         IN  PlaceWords([words EXCEPT ![at] = entries[k].word], entries, k, i + 1)

\* " ".join(words)
joined_words(idx) ==
    LET n == max_pos(idx.entries) + 1
    IN  JoinWith(PlaceWords([j \in 1..n |-> <<>>], idx.entries, 1, 1), <<" ">>)

AbstractNotAvailable == <<"A", "b", "s", "t", "r", "a", "c", "t", " ", "n", "o", "t", " ", "a", "v", "a", "i", "l", "a", "b", "l", "e", ".">>

Returned(text) == [kind |-> "text", text |-> Text(text)]
Raised(error) == [kind |-> "raise", error |-> error]

(* kc_core.py fetch_all_openalex_papers: `except: abstract = ""` *)
kc_decode_abstract(idx) ==
    IF idx.kind = "absent" THEN Returned(<<>>)
    ELSE LET error == decode_error(idx)
         IN  IF error = "none" THEN Returned(joined_words(idx))
             ELSE Returned(<<>>)

(* core.py process_paper_data: `except (ValueError, TypeError)` gives the
   placeholder, any other exception leaves the function; the abstract kept
   is sanitize_text of the result *)
core_decode_abstract(idx) ==
    IF idx.kind = "absent" THEN Returned(sanitize_text(<<>>))
    ELSE LET error == decode_error(idx)
         IN  IF error = "none" THEN Returned(sanitize_text(joined_words(idx)))
             ELSE IF error \in {"ValueError", "TypeError"}
                 THEN Returned(sanitize_text(AbstractNotAvailable))
             ELSE Raised(error)

DecodeAbstract(v, idx) ==
    IF v = "core" THEN core_decode_abstract(idx) ELSE kc_decode_abstract(idx)

notDecodeVars == <<text1, text2, threshold, dup_result, ipc, content_list, unique_content,
                   second_pass, dpc, fetchVars, enrichVars, cacheVars, byidVars, sumVars,
                   authorVars, trim_in, trim_out, tpc, batchVars>>

DecodeInit ==
    /\ impl \in {"core", "kc"}
    /\ inv_index \in InvertedIndexes
    /\ decoded = RetNone
    /\ xpc = "input"
    /\ TrimIdle
    /\ DedupIdle /\ IsDupIdle /\ FetchIdle /\ EnrichIdle /\ CacheIdle
    /\ ByIdIdle /\ SumIdle /\ AuthorIdle /\ BatchIdle

CallDecode ==
    /\ xpc = "input"
    /\ decoded' = DecodeAbstract(impl, inv_index)
    /\ xpc' = "done"
    /\ UNCHANGED <<impl, inv_index>>
    /\ UNCHANGED notDecodeVars

DecodeNext == CallDecode

SpecDecode == DecodeInit /\ [][DecodeNext]_vars

\* a mapping whose decoding raises
DecodeFails == inv_index.kind # "absent" /\ decode_error(inv_index) # "none"

\* a mapping that gives every position from 0 to the last one a word
Complete(idx) ==
    /\ idx.kind = "mapping"
    /\ decode_error(idx) = "none"
    /\ AllPositions(idx.entries) = 0..max_pos(idx.entries)

(* C25: decoding places every word at each of its positions and joins the
   words with single spaces; when the decoding fails, the abstract is the
   empty text and no exception leaves the function. *)
C25_DecodeNeverFails ==
    xpc = "done" =>
        /\ decoded.kind = "text"
        /\ Complete(inv_index) => decoded.text = joined_words(inv_index)
        /\ DecodeFails => decoded.text = <<>>

\* a malformed index decoded to the empty abstract
C25_FailedDecodeIsEmpty ==
    /\ xpc = "done"
    /\ DecodeFails
    /\ decode_error(inv_index) = "AttributeError"
    /\ decoded = Returned(<<>>)

----------------------------------------------------------------------------
(* fetch_arxiv_fulltext without the text of the PDF *)

\* the arXiv fetcher was called with an identifier and the PDF gave no text
NoPdfText ==
    /\ fpc = "done"
    /\ fetcher = "arxiv"
    /\ has_id
    /\ upstream # "ok"

\* the PDF could not be downloaded
PdfNotRetrieved == upstream \in {"network_error", "timeout", "non_200"}

(* C23: when the arXiv PDF cannot be retrieved or gives no text,
   fetch_arxiv_fulltext reports absent, never the arXiv abstract. *)
C23_AbsentWithoutPdfText ==
    NoPdfText => ~IsText(fetch_ret)

(* C23, amended: when the arXiv PDF cannot be retrieved or gives no text,
   fetch_arxiv_fulltext returns nothing but the arXiv abstract, and that only
   when the abstract query succeeds: it reports absent whenever the abstract
   query fails, and returns the abstract whenever the PDF could not be
   retrieved and the abstract query succeeds. *)
C23_AbsentOrArxivAbstract ==
    NoPdfText =>
        /\ IsText(fetch_ret) => (upstream2 = "ok" /\ fetch_ret = RetText(ArxivAbstract))
        /\ upstream2 # "ok" => ~IsText(fetch_ret)
        /\ (PdfNotRetrieved /\ upstream2 = "ok") => fetch_ret = RetText(ArxivAbstract)

\* no PDF and a failed abstract query: absent
C23_Witness ==
    /\ NoPdfText
    /\ PdfNotRetrieved
    /\ upstream2 \in RequestFailures
    /\ ~IsText(fetch_ret)

----------------------------------------------------------------------------
(* The fetcher tasks of the papers of one author.  kc_core.py:
   enrich_papers_with_content creates the tasks of max_concurrent papers,
   gathers them and goes on to the next papers.  core.py with the by-name
   endpoint of Scholar-sphere-domain: one enrich_paper_with_full_text per
   paper, all of them handed to one asyncio.gather. *)

MaxAuthorPapers == 6

\* papers[i:i+max_concurrent], as positions in the list, i counted from 0
BatchAt(i, n) == {k \in 1..n : k > i /\ k <= i + max_concurrent}

notBatchVars == <<textVars, fetchVars, enrichVars, cacheVars, byidVars, sumVars, authorVars,
                  pureVars>>

BatchInit ==
    /\ impl \in {"core", "kc"}
    /\ num_papers \in 0..MaxAuthorPapers
    /\ impl = "core" => num_papers > 0            \* `if not raw_papers: return`
    /\ issued = {}
    /\ outstanding = [k \in 1..num_papers |-> 0]
    /\ batch_i = 0
    /\ bpc = "start"
    /\ text1 = <<>> /\ text2 = <<>> /\ threshold = DefaultThreshold
    /\ dup_result = FALSE /\ ipc = "idle"
    /\ DedupIdle /\ FetchIdle /\ EnrichIdle /\ CacheIdle
    /\ ByIdIdle /\ SumIdle /\ AuthorIdle /\ PureIdle

\* api.py: enrichment_tasks = [...for p in raw_papers]; asyncio.gather(*enrichment_tasks)
GatherAll ==
    /\ impl = "core"
    /\ bpc = "start"
    /\ issued' = 1..num_papers
    /\ outstanding' = [k \in 1..num_papers |-> Cardinality(Fetchers)]
    /\ bpc' = "gathering"
    /\ UNCHANGED <<impl, num_papers, batch_i>>
    /\ UNCHANGED <<text1, text2, threshold, dup_result, ipc, content_list, unique_content,
                   second_pass, dpc>>
    /\ UNCHANGED notBatchVars

\* kc_core.py: for i in range(0, len(papers), max_concurrent): the tasks of
\* the batch are created and gathered; past the last batch the function returns
StartBatch ==
    /\ impl = "kc"
    /\ bpc = "start"
    /\ IF batch_i < num_papers
           THEN /\ issued' = issued \cup BatchAt(batch_i, num_papers)
                /\ outstanding' = [k \in 1..num_papers |->
                                      IF k \in BatchAt(batch_i, num_papers)
                                          THEN Cardinality(Fetchers) ELSE outstanding[k]]
                /\ bpc' = "gathering"
       ELSE /\ bpc' = "done"
            /\ UNCHANGED <<issued, outstanding>>
    /\ UNCHANGED <<impl, num_papers, batch_i>>
    /\ UNCHANGED <<text1, text2, threshold, dup_result, ipc, content_list, unique_content,
                   second_pass, dpc>>
    /\ UNCHANGED notBatchVars

\* a fetcher task of paper k finishes
TaskCompletes(k) ==
    /\ bpc = "gathering"
    /\ k \in issued
    /\ outstanding[k] > 0
    /\ outstanding' = [outstanding EXCEPT ![k] = @ - 1]
    /\ UNCHANGED <<impl, num_papers, issued, batch_i, bpc>>
    /\ UNCHANGED <<text1, text2, threshold, dup_result, ipc, content_list, unique_content,
                   second_pass, dpc>>
    /\ UNCHANGED notBatchVars

\* the gather returns: every task it was given has finished
GatherReturns ==
    /\ bpc = "gathering"
    /\ \A k \in issued : outstanding[k] = 0
    /\ IF impl = "core"
           THEN /\ bpc' = "done"
                /\ UNCHANGED batch_i
       ELSE /\ batch_i' = batch_i + max_concurrent
            /\ bpc' = "start"
    /\ UNCHANGED <<impl, num_papers, issued, outstanding>>
    /\ UNCHANGED <<text1, text2, threshold, dup_result, ipc, content_list, unique_content,
                   second_pass, dpc>>
    /\ UNCHANGED notBatchVars

BatchNext ==
    \/ GatherAll
    \/ StartBatch
    \/ \E k \in 1..MaxAuthorPapers : TaskCompletes(k)
    \/ GatherReturns

SpecBatch == BatchInit /\ [][BatchNext]_vars

\* the papers with a fetch in flight
InFlight == {k \in issued : outstanding[k] > 0}

\* the batch a paper belongs to
BatchOf(k) == (k - 1) \div max_concurrent

(* C24: while the papers of one author are enriched, the fetches of at most
   5 papers are in flight, and every fetch of a batch has finished before a
   fetch of the next batch is issued. *)
C24_AtMostFiveInFlight ==
    /\ Cardinality(InFlight) <= max_concurrent
    /\ \A k \in issued, j \in InFlight : BatchOf(j) >= BatchOf(k)

\* the second batch in flight after the first batch of five
C24_SecondBatchInFlight ==
    /\ impl = "kc"
    /\ batch_i = max_concurrent
    /\ InFlight # {}
    /\ \A k \in BatchAt(0, num_papers) : k \in issued /\ outstanding[k] = 0

----------------------------------------------------------------------------
(* The place of the paper's own abstract among its fragments *)

\* the text a fetcher's result adds to the fragments, <<>> when it adds none
FetchedText(r) ==
    IF r.kind = "text" THEN r.text
    ELSE IF HasAbstract(r) THEN r.abstract
    ELSE <<>>

\* fetcher f returned the text of the abstract of paper p
SameAsAbstract(p, f) ==
    /\ Truthy(FetchedText(results[p][f]))
    /\ normalize_text(FetchedText(results[p][f])) = normalize_text(papers[p].abstract)

\* paper p had an abstract and has been enriched
EnrichedWithAbstract(p) ==
    /\ enriched[p].kind = "done"
    /\ Truthy(papers[p].abstract)

(* C22: a paper's own non-empty abstract is the first fragment handed to
   deduplication, so it survives and its label is content_sources[0]; when a
   fetcher returns the same text, the abstract's label is credited and the
   fetcher's label is dropped. *)
C22_AbstractFirstAndCredited ==
    \A p \in Papers :
        EnrichedWithAbstract(p) =>
            /\ enriched[p].content_sources # <<>>
            /\ enriched[p].content_sources[1] = "OpenAlex"
            /\ \A f \in Fetchers :
                   SameAsAbstract(p, f) =>
                       \A k \in 1..Len(enriched[p].content_sources) :
                           enriched[p].content_sources[k]
                               \notin LabelsOf(f) \ {"Semantic Scholar TL;DR"}

\* Semantic Scholar returned the text of the abstract and the abstract was credited
C22_AbstractCredited ==
    \E p \in Papers :
        /\ EnrichedWithAbstract(p)
        /\ SameAsAbstract(p, "semantic_scholar")
        /\ enriched[p].content_sources[1] = "OpenAlex"
        /\ \A k \in 1..Len(enriched[p].content_sources) :
               enriched[p].content_sources[k] # "Semantic Scholar"

----------------------------------------------------------------------------
(* What a cache write leaves in the graph *)

\* a write that reached the graph: the session did not fail
PutDone(kind) == cpc = kind /\ cache_ret.db_ok

(* C28: every cache put leaves the store holding the new summary and payload
   under the key, with the time of the write as timestamp: whether or not a
   record existed, for every author record with a name and for every paper
   record, the paper without title included. *)
C28_PutAlwaysOverwrites ==
    /\ (PutDone("saved_author") /\ Present(cache_ret.info.display_name)) =>
           /\ authors[ckey].researchSummary = NewSummaryData.research_summary
           /\ authors[ckey].papersAnalyzedCount = NewSummaryData.papers_analyzed_count
           /\ authors[ckey].papersSampleJson = json_dumps(NewSummaryData.papers_sample)
           /\ authors[ckey].lastUpdated = now
    /\ (PutDone("saved_by_name") /\ Present(cache_ret.info.display_name)) =>
           /\ authors[ckey].researchSummary = "new summary"
           /\ authors[ckey].lastUpdated = now
    /\ PutDone("saved_paper") =>
           /\ works[ckey].summary = "new summary"
           /\ works[ckey].infoJson = json_dumps(cache_ret.info)
           /\ works[ckey].summaryLastUpdated = now

\* a paper with a title written over an older record, at a later time
C28_OverwroteOlderRecord ==
    /\ PutDone("saved_paper")
    /\ cache_ret.existed
    /\ Present(cache_ret.info.title)
    /\ now > Epoch
    /\ works[ckey].summary = "new summary"
    /\ works[ckey].summaryLastUpdated = now

----------------------------------------------------------------------------
(* Degraded summaries in the cache *)

\* request r generated a summary by a degraded path
Degraded(r) == rq[r].path \in DegradedPaths

(* C29: in the by-id endpoints a summary of a degraded path (rule-based,
   excerpt, sentinel) is scheduled for a cache write like the LLM's, and a
   later request for the key inside the freshness window is answered from
   the cache with that summary, without a new attempt at a summary. *)
C29_DegradedSummaryIsCached ==
    \A r \in Requests :
        /\ Degraded(r) => rq[r].tasks = 1
        /\ (FollowsFreshWrite(r) /\ Degraded(rq[r].prior)) =>
               /\ rq[r].source = "cache"
               /\ rq[r].payload = rq[rq[r].prior].payload
               /\ rq[r].summaries = 0

\* a degraded summary written and served from the cache to the next request
C29_DegradedSummaryServed ==
    \E r \in Requests :
        /\ FollowsFreshWrite(r)
        /\ Degraded(rq[r].prior)
        /\ rq[r].source = "cache"
        /\ rq[r].payload = rq[rq[r].prior].payload
        /\ rq[r].summaries = 0

----------------------------------------------------------------------------
(* Rate limits on the primary path: the LLM call of a paper summary and of
   an author summary, and the lookups of get_professor_summary_by_id *)

\* requests of get_professor_summary_by_id
AuthorByIdInit ==
    /\ ByIdInit
    /\ \A r \in Requests : rq[r].kind = "author"

RateLimitInit == SumInit \/ AuthorInit \/ AuthorByIdInit

\* a request of the endpoints is under way
ByIdStep == rq # <<>> /\ ByIdNext

RateLimitNext == SumNext \/ AuthorNext \/ ByIdStep

SpecRateLimit == RateLimitInit /\ [][RateLimitNext]_vars

\* the LLM was asked, and every request was answered with HTTP 429
AllRateLimited ==
    /\ llm_attempts # <<>>
    /\ \A i \in 1..Len(llm_attempts) : llm_attempts[i] = "rate_limited"

\* max_retries attempts with a wait between each two, every wait twice the one before
BudgetSpent ==
    /\ Len(llm_attempts) = max_retries
    /\ Len(llm_waits) = max_retries - 1
    /\ \A i \in 2..Len(llm_waits) : llm_waits[i] = 2 * llm_waits[i - 1]

(* C21: when every attempt of a rate-limited call (the LLM call, the lookup
   of the primary metadata source) is answered with a rate limit, the
   attempts stop after 3 attempts with doubling waits and the request ends
   with a summary of the fallback path (the excerpt for a paper, the
   rule-based summary for an author); the caller never gets an error.
   Stated on the states a run passes through: the attempts never exceed the
   budget, a call that is still waiting has attempts left, and the result of
   a finished call is the fallback after the whole budget. *)
C21_RateLimitEndsInFallback ==
    /\ Len(llm_attempts) <= max_retries
    /\ (spc = "calling" \/ apc = "calling") => Len(llm_attempts) < max_retries
    /\ (spc = "done" /\ AllRateLimited) =>
           /\ BudgetSpent
           /\ IsExcerpt(summary_out, PaperContent(impl, sum_paper))
    /\ (apc = "done" /\ AllRateLimited) =>
           /\ BudgetSpent
           /\ au_out = rule_based_summary(impl, au_in.name, au_in.papers)
    /\ \A r \in Requests :
           (rq # <<>> /\ rq[r].outcome = "rate_limited") =>
               /\ rq[r].status = 200
               /\ rq[r].lookups = max_retries
               /\ rq[r].path \in DegradedPaths

\* three rate-limited attempts of the LLM call, and the rule-based summary
C21_Witness ==
    /\ apc = "done"
    /\ AllRateLimited
    /\ BudgetSpent
    /\ au_out = rule_based_summary(impl, au_in.name, au_in.papers)

============================================================================
